---- MODULE Spec2Model ----
(***************************************************************************)
(* A model of the manuscript pipeline of EbookForgePro:                    *)
(*   - clean_text            (src/src/ebookforgepro/core.py)               *)
(*   - scaffold_from_meta    (src/src/ebookforgepro/core.py)               *)
(*   - autonomous_generation (src/src/ebookforgepro/core.py)               *)
(*   - Expander.expand       (src/src/ebookforgepro/ai.py)                 *)
(*                                                                         *)
(* A Python str is a sequence of symbols.  A symbol is either one of the   *)
(* characters the code treats specially (hyphen, em-dash, the smart        *)
(* quotes, the white-space characters), written as one TLA+ string each,   *)
(* or an opaque run of ordinary characters ("T", "Untitled", "Book         *)
(* Title:") that none of the rules of clean_text can touch: it holds no    *)
(* special character and neither starts nor ends with one.                 *)
(***************************************************************************)
EXTENDS Integers, Sequences, FiniteSets, TLC

(***************************************************************************)
(* Characters                                                              *)
(***************************************************************************)
HY  == "-"          \* hyphen-minus
EM  == "<EM>"       \* U+2014 em dash
CO  == ","
SP  == " "
TAB == "\t"
CR  == "\r"         \* stands for \r, \f and \v alike: the code never tells them apart
NL  == "\n"
FS  == "<FS>"       \* U+001C: white space to str.strip and str.splitlines, not to the regexes
LDQ == "<LDQ>"      \* U+201C
RDQ == "<RDQ>"      \* U+201D
LSQ == "<LSQ>"      \* U+2018
RSQ == "<RSQ>"      \* U+2019
DQ  == "\""
SQ  == "'"

\* str.isspace(): what str.strip() removes and `if x.strip()` tests
Whitespace == {SP, TAB, CR, NL, FS}

\* the line boundaries of str.splitlines()
LineBreaks == {NL, CR, FS}

(***************************************************************************)
(* Python string primitives                                                *)
(***************************************************************************)
Drop(s, n) == SubSeq(s, n + 1, Len(s))

Range(s) == {s[i] : i \in 1..Len(s)}

Min(a, b) == IF a <= b THEN a ELSE b

StartsWith(s, p) == Len(p) <= Len(s) /\ SubSeq(s, 1, Len(p)) = p

Indices(s) == [k \in 1..Len(s) |-> k]

\* s without the positions Dropped holds of, each other position k showing Sym(k)
Rewrite(s, Dropped(_), Sym(_)) ==
    LET kept == SelectSeq(Indices(s), LAMBDA k : ~Dropped(k))
    IN  [m \in 1..Len(kept) |-> Sym(kept[m])]

\* the number of symbols of class right before position k
RECURSIVE RunBefore(_, _, _)
RunBefore(s, k, class) ==
    IF k > 1 /\ s[k - 1] \in class THEN 1 + RunBefore(s, k - 1, class) ELSE 0

\* the number of symbols of class right after position k
RECURSIVE RunAfter(_, _, _)
RunAfter(s, k, class) ==
    IF k < Len(s) /\ s[k + 1] \in class THEN 1 + RunAfter(s, k + 1, class) ELSE 0

\* s.replace(c, d) for one-character c and d
str_replace_char(s, c, d) == [k \in 1..Len(s) |-> IF s[k] = c THEN d ELSE s[k]]

\* s.replace(c + c, d): left to right and non-overlapping, so inside a run of c
\* the pairs are counted from the start of the run
str_replace_pair(s, c, d) ==
    Rewrite(s,
        LAMBDA k : s[k] = c /\ RunBefore(s, k, {c}) % 2 = 1,
        LAMBDA k : IF s[k] = c /\ RunBefore(s, k, {c}) % 2 = 0 /\ RunAfter(s, k, {c}) > 0
                   THEN d ELSE s[k])

\* re.sub(r"[class]{atLeast,}", repl, s), greedy, for a repl no longer than
\* atLeast: a run of atLeast or more shows repl in its first places and loses the rest
re_sub_runs(s, class, atLeast, repl) ==
    LET InLongRun(k) ==
            s[k] \in class /\ RunBefore(s, k, class) + 1 + RunAfter(s, k, class) >= atLeast
    IN  Rewrite(s,
            LAMBDA k : InLongRun(k) /\ RunBefore(s, k, class) >= Len(repl),
            LAMBDA k : IF InLongRun(k) THEN repl[RunBefore(s, k, class) + 1] ELSE s[k])

RECURSIVE lstrip(_)
lstrip(s) == IF s # <<>> /\ s[1] \in Whitespace THEN lstrip(Tail(s)) ELSE s

RECURSIVE rstrip(_)
rstrip(s) ==
    IF s # <<>> /\ s[Len(s)] \in Whitespace THEN rstrip(SubSeq(s, 1, Len(s) - 1)) ELSE s

\* (mutant) only the left end is stripped
strip_left_only(s) == lstrip(s)

\* str.strip()
strip(s) == rstrip(lstrip(s))

\* needle in s, for a non-empty needle
Contains(s, needle) ==
    \E k \in 1..(Len(s) - Len(needle) + 1) : SubSeq(s, k, k + Len(needle) - 1) = needle

\* sep.join(parts)
RECURSIVE join(_, _)
join(sep, parts) ==
    IF parts = <<>> THEN <<>>
    ELSE IF Len(parts) = 1 THEN parts[1]
    ELSE LET h == Len(parts) \div 2
         IN  join(sep, SubSeq(parts, 1, h)) \o sep \o join(sep, SubSeq(parts, h + 1, Len(parts)))

(***************************************************************************)
(* clean_text and its option table                                         *)
(***************************************************************************)
OptKeys == {"replace_double_hyphen", "replace_emdash", "normalize_ws", "smart_quotes"}

\* the module-level table as the module sets it
CLEAN_OPTS_default == [k \in OptKeys |-> TRUE]

\* the opts argument left out (a value no dict of option keys equals)
None == [none |-> TRUE]

\* {}
EmptyDict == [k \in {} |-> TRUE]

\* {**a, **b}
DictMerge(a, b) ==
    [k \in (DOMAIN a) \cup (DOMAIN b) |-> IF k \in DOMAIN b THEN b[k] ELSE a[k]]

\* d.get(k), read as a truth value
DictGet(d, k) == k \in DOMAIN d /\ d[k]

\* (mutant) the double hyphen is left alone
ReplaceDoubleHyphen_skipped(s) == s

\* (mutant) the pattern [ \t]{2} in place of [ \t]{2,}: pairs, not runs
CollapseSpaces_pairs(s) ==
    Rewrite(s,
        LAMBDA k : s[k] \in {SP, TAB} /\ RunBefore(s, k, {SP, TAB}) % 2 = 1,
        LAMBDA k : IF /\ s[k] \in {SP, TAB}
                      /\ RunBefore(s, k, {SP, TAB}) % 2 = 0
                      /\ RunAfter(s, k, {SP, TAB}) > 0
                   THEN SP ELSE s[k])

\* the rules, one operator per statement of clean_text
ReplaceDoubleHyphen(s) == str_replace_pair(s, HY, CO)
ReplaceEmdash(s)       == str_replace_char(s, EM, CO)
SmartQuotes(s) ==
    str_replace_char(str_replace_char(str_replace_char(str_replace_char(s,
        LDQ, DQ), RDQ, DQ), RSQ, SQ), LSQ, SQ)
\* re.sub(r"[\t\r\f\v]", " ", s): each such character becomes one space
ControlToSpace(s)   == [i \in 1..Len(s) |-> IF s[i] \in {TAB, CR} THEN SP ELSE s[i]]
CollapseNewlines(s) == re_sub_runs(s, {NL}, 3, <<NL, NL>>)
CollapseSpaces(s)   == re_sub_runs(s, {SP, TAB}, 2, <<SP>>)

\* (mutant) the smart-quote rule reads the em-dash flag
clean_text_with_wrong_flag(s, opts, table) ==
    LET o  == DictMerge(table, IF opts = None THEN EmptyDict ELSE opts)
        s1 == IF DictGet(o, "replace_double_hyphen") THEN ReplaceDoubleHyphen(s) ELSE s
        s2 == IF DictGet(o, "replace_emdash") THEN ReplaceEmdash(s1) ELSE s1
        s3 == IF DictGet(o, "replace_emdash") THEN SmartQuotes(s2) ELSE s2
        s4 == IF DictGet(o, "normalize_ws")
              THEN CollapseSpaces(CollapseNewlines(ControlToSpace(s3)))
              ELSE s3
    IN  strip(s4)

\* clean_text(s, opts) against a given module-level table
clean_text_with(s, opts, table) ==
    LET o  == DictMerge(table, IF opts = None THEN EmptyDict ELSE opts)
        s1 == IF DictGet(o, "replace_double_hyphen") THEN ReplaceDoubleHyphen(s) ELSE s
        s2 == IF DictGet(o, "replace_emdash") THEN ReplaceEmdash(s1) ELSE s1
        s3 == IF DictGet(o, "smart_quotes") THEN SmartQuotes(s2) ELSE s2
        s4 == IF DictGet(o, "normalize_ws")
              THEN CollapseSpaces(CollapseNewlines(ControlToSpace(s3)))
              ELSE s3
    IN  strip(s4)

(***************************************************************************)
(* Bounds                                                                  *)
(***************************************************************************)
\* the longest argument of clean_text drawn over the whole alphabet
MaxLen == 3
\* the longest argument drawn over the dash alphabet or the white-space alphabet
MaxRunLen == 6
\* the longest table of contents drawn over the toc alphabet
MaxTocLen == 3
\* the longest argument of a direct call of Expander.expand
MaxExpandLen == 2
\* the calls of the random source in one run that may return something other
\* than their first alternative
MaxRandomDeviations == 1
\* the most entries recorded in the History/Cache Store
MaxRecords == 2
\* the longest template body drawn over the template alphabet
MaxBodyLen == 4
\* the most chapters of a plan drawn for the single-file generator
MaxPadChapters == 2
\* the most words of a chapter title drawn for it
MaxTitleWords == 2
\* the most words of the seed text drawn for it
MaxSeedWords == 1
\* the most calls made on one MusicGenerator or ImageGenerator
MaxLoadCalls == 3
\* the longest first argument drawn for two calls of clean_text in a row
MaxFrameLen == 2

(***************************************************************************)
(* State                                                                   *)
(***************************************************************************)
VARIABLES
    CLEAN_OPTS,   \* core.CLEAN_OPTS, the module-level option table
    cin,          \* the caller's string
    copts,        \* the caller's opts argument (None or a dict)
    carg,         \* the argument of the latest call of clean_text
    cret,         \* what the latest call returned
    cpc           \* "ready", "returned" (called once), "reapplied" (called on its own result)

varsClean == <<CLEAN_OPTS, cin, copts, carg, cret, cpc>>

VARIABLES
    fn,           \* the function running: "scaffold_from_meta" or "autonomous_generation"
    title, subtitle, toc, description,   \* its arguments
    topic,        \* scaffold_from_meta's topic argument
    expander,     \* autonomous_generation's expander: the class of the object passed or built
    cfg,          \* expander_cfg, the dict Expander reads
    pc,           \* "idle", "loop", "waiting" (inside requests.post), "done", "raised"
    chapters,     \* the chapter plan
    out,          \* the list of document pieces
    owner,        \* for each piece of out, the chapter that appended it (0: the preamble)
    idx,          \* i, the index of the chapter loop
    ret,          \* the returned manuscript
    calls,        \* the chapter indices expander.expand was called for, in call order
    posts,        \* the chapter indices an HTTP request was issued for, in order
    fails,        \* the chapter indices whose provider call failed
    rand_left     \* calls of the random source that may still deviate (see MaxRandomDeviations)

varsAsm == <<fn, title, subtitle, toc, description, topic, expander, cfg, pc, chapters,
             out, owner, idx, ret, calls, posts, fails, rand_left>>

VARIABLES
    ecfg,         \* the dict of the Expander called directly
    earg,         \* the argument of a direct call of Expander.expand
    eret,         \* what it returned
    eposted,      \* whether it issued an HTTP request
    eresp,        \* how requests.post ended (None: no request ended)
    epc           \* "ready", "waiting" (inside requests.post), "returned"

varsExpand == <<ecfg, earg, eret, eposted, eresp, epc>>

VARIABLES
    cancel_at     \* the chapter in flight when the caller signalled a cancellation (0: none)

varsSignal == <<cancel_at>>

VARIABLES
    hstore,       \* the History/Cache Store: its entries, oldest first
    hclock,       \* the store's clock
    hlog,         \* the calls of record so far: arguments and returned id
    hres,         \* what the latest list() or get(id) returned (None: no call yet)
    hpc           \* "open", "reopened" (after a restart of the process) or "unused"

varsStore == <<hstore, hclock, hlog, hres, hpc>>

VARIABLES
    tbody,        \* the body passed to the Template Engine's apply
    tvars,        \* the variables mapping passed to apply
    tname,        \* the name passed to get
    tres,         \* what the latest call returned
    tpc           \* "ready", "applied", "got" or "unused"

varsTpl == <<tbody, tvars, tname, tres, tpc>>

\* the state outside clean_text, the two generators and Expander
VARIABLES
    warnings      \* the warning conditions a run has recorded, in order

varsWarn == <<warnings>>

VARIABLES
    pad_titles,   \* the number of words of each chapter title of the plan
    pad_seed,     \* the number of words of seed_short[:300]
    pad_i,        \* i of the chapter loop (0: the loop not entered)
    para,         \* the number of words of para
    chunk,        \* the list chunk: how many paragraphs it holds, and their words
    target_words, \* target_words of the chapter under way
    filler,       \* the words of "\n\n".join(chunk) appended to out, chapter by chapter
    ppc           \* where the single-file scaffold_from_meta stands

varsPad == <<pad_titles, pad_seed, pad_i, para, chunk, target_words, filler, ppc>>

VARIABLES
    model,        \* MusicGenerator.model
    processor,    \* MusicGenerator.processor
    music_device, \* MusicGenerator.device
    mpc,          \* where the call of MusicGenerator under way stands ("idle": none)
    mfn,          \* the method the caller called: "generate" or "_load_model"
    mlast,        \* how the last call ended
    mcalls,       \* the calls made so far
    mattempts,    \* how often a call went on past the test of _load_model
    msucceeded,   \* the attempt that loaded model and processor (0: none yet)
    pipeline,     \* ImageGenerator.pipeline
    image_device, \* ImageGenerator.device
    ipc, ifn, ilast, icalls, iattempts, isucceeded   \* the same for ImageGenerator

varsMusic == <<model, processor, music_device, mpc, mfn, mlast, mcalls, mattempts, msucceeded>>

varsImage == <<pipeline, image_device, ipc, ifn, ilast, icalls, iattempts, isucceeded>>

varsLoad == <<varsMusic, varsImage>>

varsMore == <<varsWarn, varsPad, varsLoad>>

varsRest == <<varsSignal, varsStore, varsTpl, varsMore>>

vars == <<varsClean, varsAsm, varsExpand, varsRest>>

\* the dict Expander reads: mode ("absent": no "mode" key), and whether the keys
\* it tests are set: openai_api_key, "127.0.0.1" in openai_base, gemini_api_key,
\* llama_cpp_model_path naming an existing file
Cfg(mode, okey, olocal, gkey, lpath) ==
    [mode |-> mode, openai_api_key |-> okey, openai_base_local |-> olocal,
     gemini_api_key |-> gkey, llama_cpp_model_path |-> lpath]

EmptyCfg == Cfg("absent", FALSE, FALSE, FALSE, FALSE)

\* no call of clean_text under way
CleanUnused ==
    /\ CLEAN_OPTS = CLEAN_OPTS_default
    /\ cin = <<>> /\ copts = None /\ carg = <<>> /\ cret = <<>> /\ cpc = "unused"

\* no manuscript under way
AsmUnused ==
    /\ fn = "none" /\ title = <<>> /\ subtitle = <<>> /\ toc = <<>> /\ description = <<>>
    /\ topic = "none" /\ expander = "none" /\ cfg = EmptyCfg /\ pc = "unused"
    /\ chapters = <<>> /\ out = <<>> /\ owner = <<>> /\ idx = 0 /\ ret = <<>>
    /\ calls = <<>> /\ posts = <<>> /\ fails = {} /\ rand_left = 0

\* no direct call of Expander.expand under way
ExpandUnused ==
    /\ ecfg = EmptyCfg /\ earg = <<>> /\ eret = <<>> /\ eposted = FALSE
    /\ eresp = None /\ epc = "unused"

\* no cancellation signalled
SignalUnused == cancel_at = 0

\* the store empty and not called
StoreUnused ==
    /\ hstore = <<>> /\ hclock = 0 /\ hlog = <<>> /\ hres = None /\ hpc = "unused"

\* no call of the Template Engine under way
TplUnused ==
    /\ tbody = <<>> /\ tvars = EmptyDict /\ tname = "" /\ tres = <<>> /\ tpc = "unused"

WarnUnused == warnings = <<>>

\* an empty list chunk
EmptyChunk == [n |-> 0, words |-> 0]

\* the single-file generator not called
PadUnused ==
    /\ pad_titles = <<>> /\ pad_seed = 0 /\ pad_i = 0 /\ para = 0
    /\ chunk = EmptyChunk /\ target_words = 0 /\ filler = <<>> /\ ppc = "unused"

\* MusicGenerator() and ImageGenerator() as __init__ leaves them, not called
MusicFresh ==
    /\ model = None /\ processor = None /\ music_device = None
    /\ mfn = "" /\ mlast = "none" /\ mcalls = 0 /\ mattempts = 0 /\ msucceeded = 0

ImageFresh ==
    /\ pipeline = None /\ image_device = None
    /\ ifn = "" /\ ilast = "none" /\ icalls = 0 /\ iattempts = 0 /\ isucceeded = 0

LoadUnused == MusicFresh /\ ImageFresh /\ mpc = "unused" /\ ipc = "unused"

MoreUnused == WarnUnused /\ PadUnused /\ LoadUnused

RestUnused == SignalUnused /\ StoreUnused /\ TplUnused /\ MoreUnused

\* clean_text(s, opts) and clean_text(s)
clean_text2(s, opts) == clean_text_with(s, opts, CLEAN_OPTS)
clean_text(s) == clean_text_with(s, None, CLEAN_OPTS)

(***************************************************************************)
(* The callers of clean_text: inputs                                       *)
(***************************************************************************)
StringsOver(alphabet, n) == UNION {[1..k -> alphabet] : k \in 0..n}

CharsAll  == {HY, EM, CO, SP, TAB, CR, NL, FS, LDQ, RSQ, "a"}
CharsDash == {HY, EM, CO, "a"}
CharsWs   == {SP, TAB, NL, "a"}

\* the example of the documentation: a--b<em dash>c
DashExample == <<"a", HY, HY, "b", EM, "c">>

\* dashes, space runs, a tab and a smart quote in one argument
MixedExample == <<SP, SP, HY, HY, TAB, "a", LDQ>>

CleanInputs ==
    StringsOver(CharsAll, MaxLen) \cup StringsOver(CharsDash, MaxRunLen)
        \cup StringsOver(CharsWs, MaxRunLen) \cup {DashExample, MixedExample}

\* the option dicts a caller passes: none, {}, one flag off, every flag off
CleanOptChoices ==
    {None, EmptyDict, [k \in OptKeys |-> FALSE]} \cup {[k \in {f} |-> FALSE] : f \in OptKeys}

InitClean ==
    /\ CLEAN_OPTS = CLEAN_OPTS_default
    /\ cin \in CleanInputs
    /\ copts \in CleanOptChoices
    /\ carg = cin
    /\ cret = <<>>
    /\ cpc = "ready"
    /\ AsmUnused
    /\ ExpandUnused
    /\ RestUnused

\* (mutant) the options are merged into the module-level table: CLEAN_OPTS.update(opts or {})
table_after_call_updated(table, opts) ==
    DictMerge(table, IF opts = None THEN EmptyDict ELSE opts)

\* CLEAN_OPTS once clean_text(s, opts) has returned: {**CLEAN_OPTS, **(opts or {})}
\* builds a new dict and binds it to the local name
table_after_call(table, opts) == table

\* the caller's mapping once clean_text(s, opts) has returned
opts_after_call(table, opts) == opts

\* r = clean_text(s, opts)
CleanCall ==
    /\ cpc = "ready"
    /\ cret' = clean_text2(carg, copts)
    /\ CLEAN_OPTS' = table_after_call(CLEAN_OPTS, copts)
    /\ copts' = opts_after_call(CLEAN_OPTS, copts)
    /\ cpc' = "returned"
    /\ UNCHANGED <<cin, carg, varsAsm, varsExpand, varsRest>>

\* r2 = clean_text(r, opts)
CleanAgain ==
    /\ cpc = "returned"
    /\ carg' = cret
    /\ cret' = clean_text2(cret, copts)
    /\ CLEAN_OPTS' = table_after_call(CLEAN_OPTS, copts)
    /\ copts' = opts_after_call(CLEAN_OPTS, copts)
    /\ cpc' = "reapplied"
    /\ UNCHANGED <<cin, varsAsm, varsExpand, varsRest>>

NextClean == CleanCall \/ CleanAgain

SpecClean == InitClean /\ [][NextClean]_vars

(***************************************************************************)
(* Properties of clean_text (checked under SpecClean)                      *)
(***************************************************************************)
Called == cpc \in {"returned", "reapplied"}

\* C4: with default options clean_text is idempotent: called on its own
\* result it returns that result unchanged.
C4_Idempotent == (cpc = "reapplied" /\ copts = None) => cret = carg

\* a call that changed its argument, repeated on the result
C4_Witness ==
    /\ cpc = "reapplied" /\ copts = None
    /\ cin # carg /\ Len(carg) >= 3 /\ cret = carg

\* C8: with default options the result holds no "--" and no em dash, and
\* clean_text("a--b<em dash>c") is "a,b,c".
C8_NoDashes ==
    (Called /\ copts = None) =>
        /\ ~Contains(cret, <<HY, HY>>)
        /\ EM \notin Range(cret)
        /\ (cpc = "returned" /\ cin = DashExample) => cret = <<"a", CO, "b", CO, "c">>

C8_Witness ==
    /\ cpc = "returned" /\ copts = None /\ cin = DashExample
    /\ cret = <<"a", CO, "b", CO, "c">>

\* every symbol a string of the clean_text callers can hold
Symbols == CharsAll \cup {RDQ, LSQ, DQ, SQ, "b", "c"}

\* C9: with default options the result holds no tab, carriage return, form
\* feed or vertical tab, no run of 3 newlines, no run of 2 spaces and no
\* leading or trailing white space; and clean_text returns for every string,
\* the empty one included.
C9_WhitespaceNormal ==
    /\ cpc = "ready" => Range(clean_text2(carg, copts)) \subseteq Symbols
    /\ (Called /\ copts = None) =>
        /\ Range(cret) \cap {TAB, CR} = {}
        /\ ~Contains(cret, <<NL, NL, NL>>)
        /\ ~Contains(cret, <<SP, SP>>)
        /\ cret # <<>> => (cret[1] \notin Whitespace /\ cret[Len(cret)] \notin Whitespace)

\* an argument with outer white space, a newline run and a tab
C9_Witness ==
    /\ cpc = "returned" /\ copts = None
    /\ cin = <<SP, "a", NL, NL, NL, TAB>>
    /\ cret = <<"a">>

\* the rules of the normalizer, as the documentation lists them
Rules == {"double_hyphen", "emdash", "smart_quotes", "control_ws", "newline_runs",
          "space_runs", "trim"}

\* the rules of `on` applied in the documented order, the others left out
ApplyRules(s, on) ==
    LET r1 == IF "double_hyphen" \in on THEN ReplaceDoubleHyphen(s) ELSE s
        r2 == IF "emdash" \in on THEN ReplaceEmdash(r1) ELSE r1
        r3 == IF "smart_quotes" \in on THEN SmartQuotes(r2) ELSE r2
        r4 == IF "control_ws" \in on THEN ControlToSpace(r3) ELSE r3
        r5 == IF "newline_runs" \in on THEN CollapseNewlines(r4) ELSE r4
        r6 == IF "space_runs" \in on THEN CollapseSpaces(r5) ELSE r5
    IN  IF "trim" \in on THEN strip(r6) ELSE r6

\* every options dict a caller can write over the known keys and one other key
AnyOptionDicts == UNION {[D -> BOOLEAN] : D \in SUBSET (OptKeys \cup {"trim"})}

\* C10 as stated: each of the seven rules can be switched off on its own, that
\* is, for each rule some options value gives exactly the other six rules.
C10_EachRuleSwitchable ==
    cpc = "returned" =>
        \A r \in Rules : \E o \in AnyOptionDicts :
            clean_text2(cin, o) = ApplyRules(cin, Rules \ {r})

\* the rules an option flag governs
RulesOf(f) ==
    CASE f = "replace_double_hyphen" -> {"double_hyphen"}
      [] f = "replace_emdash"        -> {"emdash"}
      [] f = "smart_quotes"          -> {"smart_quotes"}
      [] f = "normalize_ws"          -> {"control_ws", "newline_runs", "space_runs"}

\* C10 (amended): the options hold four flags.  Each of replace_double_hyphen,
\* replace_emdash and smart_quotes switches off its own rule; normalize_ws
\* switches off the three white-space rules together; trimming is applied
\* whatever the options; with no options every rule is applied.
C10_FlagsSwitchable ==
    cpc = "returned" =>
        /\ copts \in {None, EmptyDict} => cret = ApplyRules(cin, Rules)
        /\ \A f \in OptKeys :
              copts = [k \in {f} |-> FALSE] => cret = ApplyRules(cin, Rules \ RulesOf(f))
        /\ cret = strip(cret)

\* normalize_ws off: the tab and the space run stay, the dashes go, the ends are trimmed
C10_Witness ==
    /\ cpc = "returned" /\ copts = [k \in {"normalize_ws"} |-> FALSE]
    /\ cin = MixedExample
    /\ cret = <<CO, TAB, "a", DQ>>

(***************************************************************************)
(* The table of contents and the document pieces (core.py)                 *)
(***************************************************************************)
\* the index of the first symbol of s that is in class, 0 when there is none
FirstIn(s, class) ==
    IF \E k \in 1..Len(s) : s[k] \in class
    THEN CHOOSE k \in 1..Len(s) : s[k] \in class /\ \A m \in 1..(k - 1) : s[m] \notin class
    ELSE 0

\* s.split(sep) for a one-character sep
RECURSIVE split(_, _)
split(s, sep) ==
    LET k == FirstIn(s, {sep})
    IN  IF k = 0 THEN <<s>> ELSE <<SubSeq(s, 1, k - 1)>> \o split(Drop(s, k), sep)

\* s.splitlines(): no line for the empty rest, "\r\n" is one boundary
RECURSIVE splitlines(_)
splitlines(s) ==
    IF s = <<>> THEN <<>>
    ELSE LET k == FirstIn(s, LineBreaks)
         IN  IF k = 0 THEN <<s>>
             ELSE LET skip == IF s[k] = CR /\ k < Len(s) /\ s[k + 1] = NL THEN k + 1 ELSE k
                  IN  <<SubSeq(s, 1, k - 1)>> \o splitlines(Drop(s, skip))

\* (mutant) `if x`: an entry of white space only is kept
NotBlank_any(x) == x # <<>>

\* `if x.strip()`
NotBlank(x) == strip(x) # <<>>

\* (mutant) the table of contents split on commas whether or not it holds "\n"
parse_toc_commas(t) ==
    LET kept == SelectSeq(split(t, CO), NotBlank)
    IN  [k \in 1..Len(kept) |-> clean_text(kept[k])]

\* [clean_text(x) for x in parts if x.strip()], split on lines when toc holds "\n"
parse_toc(t) ==
    LET parts == IF NL \in Range(t) THEN splitlines(t) ELSE split(t, CO)
        kept  == SelectSeq(parts, NotBlank)
    IN  [k \in 1..Len(kept) |-> clean_text(kept[k])]

DefaultChapters == << <<"Introduction">>, <<"Chapter 1">>, <<"Chapter 2">>, <<"Conclusion">> >>

ErrorEmptyToc == <<"# Error: Table of Contents is empty.">>

\* (mutant) scaffold_from_meta's plan with the last default chapter lost
plan_scaffold_short(parsed) ==
    IF parsed = <<>> THEN SubSeq(DefaultChapters, 1, 3) ELSE parsed

\* the chapter plan of scaffold_from_meta: `if not chapters: chapters = [...]`
plan_scaffold(parsed) == IF parsed = <<>> THEN DefaultChapters ELSE parsed

\* (mutant) a title that stands in the plan already is left out
plan_autonomous_dedup(parsed) ==
    LET keep == {k \in 1..Len(parsed) : \A j \in 1..(k - 1) : parsed[j] # parsed[k]}
        nth(m) == CHOOSE k \in keep : Cardinality({q \in keep : q < k}) = m - 1
    IN  [m \in 1..Cardinality(keep) |-> parsed[nth(m)]]

\* the chapter plan of autonomous_generation: an empty one is returned as an error
plan_autonomous(parsed) == parsed

\* f"{i}."
NumDot(k) == <<"1.", "2.", "3.", "4.", "5.", "6.", "7.", "8.", "9.">>[k]

\* f"{i}. {ch}"
TocLine(k, ch) == <<NumDot(k), SP>> \o ch

TocLines(chs) == [k \in 1..Len(chs) |-> TocLine(k, chs[k])]

\* (mutant) the subtitle line is written for an empty subtitle too
Preamble_subtitle_always(t, sub, desc) ==
    << <<"#", SP>> \o t >>
    \o << <<NL, "**">> \o sub \o <<"**", NL>> >>
    \o (IF desc # <<>> THEN << <<NL, ">", SP>> \o desc \o <<NL>> >> ELSE <<>>)
    \o << <<NL, "### Table of Contents", NL>> >>

\* the list out up to "### Table of Contents"
Preamble(t, sub, desc) ==
    << <<"#", SP>> \o t >>
    \o (IF sub # <<>> THEN << <<NL, "**">> \o sub \o <<"**", NL>> >> ELSE <<>>)
    \o (IF desc # <<>> THEN << <<NL, ">", SP>> \o desc \o <<NL>> >> ELSE <<>>)
    \o << <<NL, "### Table of Contents", NL>> >>

\* f"## {i}. {ch}", the heading inside f"\n\n## {i}. {ch}\n"
HeadingText(k, ch) == <<"##", SP, NumDot(k), SP>> \o ch

Heading(k, ch) == <<NL, NL>> \o HeadingText(k, ch) \o <<NL>>

\* (mutant) the chapters enumerated from the last to the first
LoopItem_reversed(chs, k) ==
    [index |-> Len(chs) + 1 - k, title |-> chs[Len(chs) + 1 - k]]

\* the k-th item of enumerate(chapters, 1)
LoopItem(chs, k) == [index |-> k, title |-> chs[k]]

\* (mutant) the joined pieces returned as they are
FinalDocument_raw(pieces) == join(<<NL>>, pieces)

\* return clean_text("\n".join(out))
FinalDocument(pieces) == clean_text(join(<<NL>>, pieces))

(***************************************************************************)
(* The offline training data and the random source                         *)
(***************************************************************************)
KnownTopic == "Digital Marketing Strategy"

\* TRAINING_DATA[KnownTopic]: each text is one opaque symbol
TRAINING_DATA ==
    [introductions |-> <<"introductions[0]", "introductions[1]", "introductions[2]">>,
     core_concepts |-> <<"core_concepts[0]", "core_concepts[1]", "core_concepts[2]">>,
     examples      |-> <<"examples[0]", "examples[1]">>,
     exercises     |-> <<"exercises[0]", "exercises[1]">>,
     takeaways     |-> <<"takeaways[0]", "takeaways[1]">>]

\* (mutant) k indices drawn with replacement
Samples_with_replacement(n, k) == [1..k -> 1..n]

\* random.sample(range(n), k): k distinct indices in any order
Samples(n, k) ==
    {s \in [1..k -> 1..n] : \A a, b \in 1..k : a # b => s[a] # s[b]}

\* what the random source yields for one chapter
Draws ==
    [intro     : 1..Len(TRAINING_DATA.introductions),
     concepts  : Samples(Len(TRAINING_DATA.core_concepts),
                         Min(3, Len(TRAINING_DATA.core_concepts))),
     example   : 1..Len(TRAINING_DATA.examples),
     exercises : Samples(Len(TRAINING_DATA.exercises), Min(2, Len(TRAINING_DATA.exercises))),
     takeaway  : 1..Len(TRAINING_DATA.takeaways)]

\* every call of the random source returning its first alternative
FirstDraw ==
    [intro |-> 1, concepts |-> <<1, 2, 3>>, example |-> 1, exercises |-> <<1, 2>>,
     takeaway |-> 1]

\* the calls of the random source that, in draw d, return another alternative
Deviations(d) == Cardinality({f \in DOMAIN d : d[f] # FirstDraw[f]})

\* the pieces one chapter appends under a known topic
SectionPieces(k, ch, d) ==
    << Heading(k, ch), <<TRAINING_DATA.introductions[d.intro]>>, <<NL>> >>
    \o [m \in 1..Len(d.concepts) |-> <<TRAINING_DATA.core_concepts[d.concepts[m]]>>]
    \o << <<NL, NL, "**Example:**", SP, TRAINING_DATA.examples[d.example]>>,
          <<NL, NL, "### Exercises", NL>> >>
    \o [m \in 1..Len(d.exercises) |-> <<"1.", SP, TRAINING_DATA.exercises[d.exercises[m]]>>]
    \o << <<NL, NL, "### Key Takeaways", NL>>, <<TRAINING_DATA.takeaways[d.takeaway]>> >>

(***************************************************************************)
(* Expander (ai.py) and the expanders a caller passes                      *)
(***************************************************************************)
AuthorMark == "You are an expert author"

\* the prompt of autonomous_generation for one chapter
Prompt(t, full_toc_str, ch_title) ==
    <<AuthorMark, SP, "writing a chapter for a book.", NL, NL, "Book Title:", SP>> \o t
    \o <<NL, "Full ToC:", NL>> \o full_toc_str
    \o <<NL, NL, "You are writing the chapter:", SP, DQ>> \o ch_title
    \o <<DQ, ".", NL, NL,
         "Write the full content for this chapter, starting with a Level 2 Markdown heading",
         SP, "(<backtick>##", SP>> \o ch_title \o <<"<backtick>).">>

OfflinePlaceholder ==
    <<"## Chapter Content", NL, NL,
      "Offline mode cannot generate new content. Please select an AI provider in the APIs tab.">>

LlamaPathError ==
    <<"Error: Llama.cpp model path not found or not specified. Please configure it in the APIs tab.">>

\* ai.py never imports ensure_pkg: the call raises NameError, which _llama_cpp catches
LlamaImportError ==
    <<"Error: Failed to install or import llama-cpp-python. Please install it with 'pip install ebookforgepro[local_llm]'. Details: name 'ensure_pkg' is not defined">>

\* cfg.get("mode", "offline")
Mode(c) == IF c.mode = "absent" THEN "offline" ELSE c.mode

\* (mutant) the offline mode posts the manuscript as the remote modes do
NeedsRequest_offline_too(c) ==
    \/ Mode(c) = "openai" /\ (c.openai_api_key \/ c.openai_base_local)
    \/ Mode(c) = "gemini" /\ c.gemini_api_key
    \/ Mode(c) \in {"local", "offline"}

\* whether expand reaches requests.post
NeedsRequest(c) ==
    \/ Mode(c) = "openai" /\ (c.openai_api_key \/ c.openai_base_local)
    \/ Mode(c) = "gemini" /\ c.gemini_api_key
    \/ Mode(c) = "local"

\* (mutant) the fallback returns pass through the normalizer as well
expand_without_request_cleaned(c, m) ==
    CASE Mode(c) = "offline" ->
            IF Contains(m, <<AuthorMark>>) THEN OfflinePlaceholder ELSE clean_text(m)
      [] Mode(c) = "llama.cpp" ->
            IF ~c.llama_cpp_model_path THEN LlamaPathError ELSE LlamaImportError
      [] OTHER -> clean_text(m)

\* what expand returns on the paths that issue no request
expand_without_request(c, m) ==
    CASE Mode(c) = "offline" ->
            IF Contains(m, <<AuthorMark>>) THEN OfflinePlaceholder ELSE m
      [] Mode(c) = "openai" -> m       \* no key, not a local base
      [] Mode(c) = "gemini" -> m       \* no key
      [] Mode(c) = "llama.cpp" ->
            IF ~c.llama_cpp_model_path THEN LlamaPathError ELSE LlamaImportError
      [] OTHER -> m                    \* an unknown mode falls through the ifs

\* the provider failures: requests.post raises, raise_for_status raises, r.json() raises
FailureKinds == {"exception", "http_error", "bad_json"}

\* what expand returns once requests.post has ended with response r
expand_with_response(c, m, r) ==
    IF r.kind \in FailureKinds THEN m      \* `except Exception`, then `return manuscript`
    ELSE CASE Mode(c) = "openai" ->
                 clean_text(IF r.kind = "no_text" THEN m ELSE r.text)
           [] Mode(c) = "gemini" ->
                 IF r.kind = "no_text" THEN m ELSE clean_text(r.text)
           [] Mode(c) = "local" ->
                 clean_text(IF r.kind = "no_text" THEN m ELSE r.text)

\* the texts a provider or a caller's expander returns
ProviderTexts ==
    { <<"##", SP, "X", NL, NL, "body">>,
      <<SP, "x", HY, HY, "y", SP, SP, EM, NL, NL, NL>> }

\* how requests.post and the decoding of its response can end
Responses ==
    {[kind |-> k, text |-> <<>>] : k \in FailureKinds \cup {"no_text"}}
        \cup {[kind |-> "text", text |-> x] : x \in ProviderTexts}

\* re.search(r'You are writing the chapter: "(.+?)"', manuscript) of cli.MockExpander:
\* the shortest non-empty run without a newline that a quote follows
MockTitle(m) ==
    LET mark == <<"You are writing the chapter:", SP, DQ>>
        at   == IF Contains(m, mark)
                THEN CHOOSE k \in 1..Len(m) :
                        /\ StartsWith(Drop(m, k - 1), mark)
                        /\ \A n \in 1..(k - 1) : ~StartsWith(Drop(m, n - 1), mark)
                ELSE 0
        rest == Drop(m, at + Len(mark) - 1)
        ends == {k \in 1..(Len(rest) - 1) :
                    rest[k + 1] = DQ /\ NL \notin Range(SubSeq(rest, 1, k))}
    IN  IF at = 0 \/ ends = {} THEN <<"Unknown Chapter">>
        ELSE SubSeq(rest, 1, CHOOSE k \in ends : \A n \in ends : k <= n)

\* cli.MockExpander.expand
MockExpand(m) ==
    <<"##", SP>> \o MockTitle(m)
        \o <<NL, NL, "This is the mock-generated content for the chapter.">>

(***************************************************************************)
(* The callers of scaffold_from_meta and autonomous_generation: inputs     *)
(***************************************************************************)
TocChars == {"A", "B", CO, NL, SP}

TocABC == <<"A", CO, "B", CO, "C">>

\* tables of contents beyond MaxTocLen: three chapters, lines holding commas, a
\* carriage return, entries that clean_text rewrites, blank entries
TocSamples ==
    { TocABC,
      <<"A", CO, "A", CO, "A">>,
      <<"A", CO, "B", NL, "C", CO, SP, NL, SP, NL, "D">>,
      <<"A", CR, "B", CO, "C">>,
      <<"A", HY, HY, "B", CO, SP, SP, LDQ, "C", RDQ, CO, CO, SP>> }

TitleChoices == { <<>>, <<"T">>, <<SP>>, <<"T", HY, HY, "t", NL, NL, NL, "u">> }
SubtitleChoices == { <<>>, <<"S">>, <<SP>> }
DescriptionChoices == { <<>>, <<LDQ, "D", RDQ>> }

\* the dicts Expander is built from
CfgChoices ==
    { EmptyCfg,
      Cfg("offline", FALSE, FALSE, FALSE, FALSE),
      Cfg("openai", TRUE, FALSE, FALSE, FALSE),
      Cfg("openai", FALSE, FALSE, FALSE, FALSE),
      Cfg("openai", FALSE, TRUE, FALSE, FALSE),
      Cfg("gemini", FALSE, FALSE, TRUE, FALSE),
      Cfg("gemini", FALSE, FALSE, FALSE, FALSE),
      Cfg("local", FALSE, FALSE, FALSE, FALSE),
      Cfg("llama.cpp", FALSE, FALSE, FALSE, FALSE),
      Cfg("llama.cpp", FALSE, FALSE, FALSE, TRUE),
      Cfg("other", TRUE, FALSE, TRUE, FALSE) }

\* a call of scaffold_from_meta(t, sub, tc, desc, topic=tp)
CallScaffold(t, sub, tc, desc, tp) ==
    /\ fn = "scaffold_from_meta"
    /\ title = t /\ subtitle = sub /\ toc = tc /\ description = desc /\ topic = tp
    /\ expander = "none" /\ cfg = EmptyCfg

\* a call of autonomous_generation(t, sub, tc, desc, c, expander=e)
CallAutonomous(t, sub, tc, desc, e, c) ==
    /\ fn = "autonomous_generation"
    /\ title = t /\ subtitle = sub /\ toc = tc /\ description = desc /\ topic = "none"
    /\ expander = e /\ cfg = c

\* every table of contents, with fixed metadata and a deterministic content source
CallsOverToc ==
    \E tc \in StringsOver(TocChars, MaxTocLen) \cup TocSamples :
        \/ CallScaffold(<<"T">>, <<>>, tc, <<>>, "Generic")
        \/ CallAutonomous(<<"T">>, <<>>, tc, <<>>, "MockExpander", EmptyCfg)
        \/ CallAutonomous(<<"T">>, <<>>, tc, <<>>, "Expander", EmptyCfg)

\* every title, subtitle and description
CallsOverMetadata ==
    \E t \in TitleChoices, sub \in SubtitleChoices, desc \in DescriptionChoices,
       tc \in {<<>>, <<"A", CO, "B">>} :
        \/ CallScaffold(t, sub, tc, desc, "Generic")
        \/ CallAutonomous(t, sub, tc, desc, "MockExpander", EmptyCfg)

\* the known topic, with its random draws
CallsOverTopic ==
    \E tc \in {<<>>, <<"A", CO, "B">>} :
        CallScaffold(<<"T">>, <<>>, tc, <<"D">>, KnownTopic)

\* every expander: Expander over each configuration, and a caller's own object
CallsOverExpander ==
    \E tc \in {<<>>, <<"A">>, <<"A", CO, "B">>, TocABC} :
        \/ \E c \in CfgChoices : CallAutonomous(<<"T">>, <<>>, tc, <<>>, "Expander", c)
        \/ CallAutonomous(<<"T">>, <<>>, tc, <<>>, "Custom", EmptyCfg)

Init ==
    /\ CallsOverToc \/ CallsOverMetadata \/ CallsOverTopic \/ CallsOverExpander
    /\ pc = "idle"
    /\ chapters = <<>> /\ out = <<>> /\ owner = <<>> /\ idx = 0 /\ ret = <<>>
    /\ calls = <<>> /\ posts = <<>> /\ fails = {}
    /\ rand_left = MaxRandomDeviations
    /\ CleanUnused
    /\ ExpandUnused
    /\ RestUnused

(***************************************************************************)
(* scaffold_from_meta and autonomous_generation                            *)
(***************************************************************************)
Zeros(n) == [k \in 1..n |-> 0]

\* both functions up to the chapter loop: the arguments cleaned, the table of
\* contents parsed, the preamble and the listing appended
Plan ==
    /\ pc = "idle"
    /\ LET t      == clean_text(IF title = <<>> THEN <<"Untitled">> ELSE title)
           sub    == clean_text(subtitle)
           desc   == clean_text(description)
           parsed == parse_toc(toc)
           chs    == IF fn = "scaffold_from_meta"
                     THEN plan_scaffold(parsed) ELSE plan_autonomous(parsed)
           pieces == Preamble(t, sub, desc)
                       \o (IF fn = "scaffold_from_meta"
                           THEN TocLines(chs) ELSE <<join(<<NL>>, TocLines(chs))>>)
       IN  /\ title' = t /\ subtitle' = sub /\ description' = desc
           /\ chapters' = chs
           /\ IF chs = <<>>
              THEN \* autonomous_generation: return "# Error: Table of Contents is empty."
                   /\ ret' = ErrorEmptyToc /\ pc' = "done"
                   /\ UNCHANGED <<out, owner, idx>>
              ELSE /\ out' = pieces /\ owner' = Zeros(Len(pieces))
                   /\ idx' = 1 /\ pc' = "loop"
                   /\ UNCHANGED ret
    /\ UNCHANGED <<fn, toc, topic, expander, cfg, calls, posts, fails, rand_left>>
    /\ UNCHANGED <<varsClean, varsExpand, varsRest>>

InLoop(f) == fn = f /\ pc = "loop" /\ idx <= Len(chapters)

\* one iteration of scaffold_from_meta's loop under a topic of TRAINING_DATA
ScaffoldTopicChapter ==
    /\ InLoop("scaffold_from_meta") /\ topic = KnownTopic
    /\ \E d \in Draws :
        LET item   == LoopItem(chapters, idx)
            pieces == SectionPieces(item.index, item.title, d)
        IN  /\ Deviations(d) <= rand_left
            /\ rand_left' = rand_left - Deviations(d)
            /\ out' = out \o pieces
            /\ owner' = owner \o [k \in 1..Len(pieces) |-> item.index]
    /\ idx' = idx + 1
    /\ UNCHANGED <<fn, title, subtitle, toc, description, topic, expander, cfg, pc,
                   chapters, ret, calls, posts, fails>>
    /\ UNCHANGED <<varsClean, varsExpand, varsRest>>

\* one iteration of scaffold_from_meta's loop under any other topic
ScaffoldGenericChapter ==
    /\ InLoop("scaffold_from_meta") /\ topic # KnownTopic
    /\ LET item == LoopItem(chapters, idx)
       IN  /\ out' = Append(out, Heading(item.index, item.title))
           /\ owner' = Append(owner, item.index)
    /\ idx' = idx + 1
    /\ UNCHANGED <<fn, title, subtitle, toc, description, topic, expander, cfg, pc,
                   chapters, ret, calls, posts, fails, rand_left>>
    /\ UNCHANGED <<varsClean, varsExpand, varsRest>>

\* the prompt of the current iteration of autonomous_generation's loop
CurrentPrompt ==
    Prompt(title, join(<<NL>>, TocLines(chapters)), LoopItem(chapters, idx).title)

\* (mutant) the piece of the chapter before is overwritten instead of kept
AppendGenerated_overwriting(text) ==
    /\ out' = IF owner[Len(owner)] > 0
              THEN [out EXCEPT ![Len(out)] = <<NL, NL>> \o text]
              ELSE Append(out, <<NL, NL>> \o text)
    /\ owner' = IF owner[Len(owner)] > 0
                THEN [owner EXCEPT ![Len(owner)] = LoopItem(chapters, idx).index]
                ELSE Append(owner, LoopItem(chapters, idx).index)
    /\ idx' = idx + 1

\* out.append(f"\n\n{generated_content}") and the next iteration
AppendGenerated(text) ==
    /\ out' = Append(out, <<NL, NL>> \o text)
    /\ owner' = Append(owner, LoopItem(chapters, idx).index)
    /\ idx' = idx + 1

\* an iteration whose expander.expand returns without a request: Expander in
\* offline mode, without the key it needs, in llama.cpp mode, in an unknown mode
GenerateWithoutRequest ==
    /\ InLoop("autonomous_generation") /\ expander = "Expander" /\ ~NeedsRequest(cfg)
    /\ calls' = Append(calls, LoopItem(chapters, idx).index)
    /\ AppendGenerated(expand_without_request(cfg, CurrentPrompt))
    /\ UNCHANGED <<fn, title, subtitle, toc, description, topic, expander, cfg, pc,
                   chapters, ret, posts, fails, rand_left>>
    /\ UNCHANGED <<varsClean, varsExpand, varsRest>>

\* an iteration with the MockExpander of the cli self-check
GenerateMock ==
    /\ InLoop("autonomous_generation") /\ expander = "MockExpander"
    /\ calls' = Append(calls, LoopItem(chapters, idx).index)
    /\ AppendGenerated(MockExpand(CurrentPrompt))
    /\ UNCHANGED <<fn, title, subtitle, toc, description, topic, expander, cfg, pc,
                   chapters, ret, posts, fails, rand_left>>
    /\ UNCHANGED <<varsClean, varsExpand, varsRest>>

\* an iteration with a caller's own expander, which returns any text
GenerateCustom ==
    /\ InLoop("autonomous_generation") /\ expander = "Custom"
    /\ calls' = Append(calls, LoopItem(chapters, idx).index)
    /\ \E x \in ProviderTexts : AppendGenerated(x)
    /\ UNCHANGED <<fn, title, subtitle, toc, description, topic, expander, cfg, pc,
                   chapters, ret, posts, fails, rand_left>>
    /\ UNCHANGED <<varsClean, varsExpand, varsRest>>

\* an iteration with a caller's own expander, which raises: nothing in
\* autonomous_generation catches it
GenerateCustomRaises ==
    /\ InLoop("autonomous_generation") /\ expander = "Custom"
    /\ calls' = Append(calls, LoopItem(chapters, idx).index)
    /\ fails' = fails \cup {LoopItem(chapters, idx).index}
    /\ pc' = "raised"
    /\ UNCHANGED <<fn, title, subtitle, toc, description, topic, expander, cfg,
                   chapters, out, owner, idx, ret, posts, rand_left>>
    /\ UNCHANGED <<varsClean, varsExpand, varsRest>>

\* (mutant) the request is issued and the loop goes on without its response
GenerateRequest_async ==
    /\ InLoop("autonomous_generation") /\ expander = "Expander" /\ NeedsRequest(cfg)
    /\ calls' = Append(calls, LoopItem(chapters, idx).index)
    /\ posts' = Append(posts, LoopItem(chapters, idx).index)
    /\ idx' = idx + 1
    /\ UNCHANGED <<fn, title, subtitle, toc, description, topic, expander, cfg, pc,
                   chapters, out, owner, ret, fails, rand_left>>
    /\ UNCHANGED <<varsClean, varsExpand, varsRest>>

\* an iteration whose expander.expand reaches requests.post
GenerateRequest ==
    /\ InLoop("autonomous_generation") /\ expander = "Expander" /\ NeedsRequest(cfg)
    /\ calls' = Append(calls, LoopItem(chapters, idx).index)
    /\ posts' = Append(posts, LoopItem(chapters, idx).index)
    /\ pc' = "waiting"
    /\ UNCHANGED <<fn, title, subtitle, toc, description, topic, expander, cfg,
                   chapters, out, owner, idx, ret, fails, rand_left>>
    /\ UNCHANGED <<varsClean, varsExpand, varsRest>>

\* requests.post ends, expand returns, the iteration appends what it returned
GenerateResponse ==
    /\ fn = "autonomous_generation" /\ pc = "waiting"
    /\ \E r \in Responses :
        /\ fails' = IF r.kind \in FailureKinds
                    THEN fails \cup {LoopItem(chapters, idx).index} ELSE fails
        /\ AppendGenerated(expand_with_response(cfg, CurrentPrompt, r))
    /\ pc' = "loop"
    /\ UNCHANGED <<fn, title, subtitle, toc, description, topic, expander, cfg,
                   chapters, ret, calls, posts, rand_left>>
    /\ UNCHANGED <<varsClean, varsExpand, varsRest>>

\* the loop is over: return clean_text("\n".join(out))
Return ==
    /\ pc = "loop" /\ idx > Len(chapters)
    /\ ret' = FinalDocument(out)
    /\ pc' = "done"
    /\ UNCHANGED <<fn, title, subtitle, toc, description, topic, expander, cfg,
                   chapters, out, owner, idx, calls, posts, fails, rand_left>>
    /\ UNCHANGED <<varsClean, varsExpand, varsRest>>

\* the caller signals a cancellation while a request is in flight: nothing in
\* autonomous_generation or Expander reads the signal
Cancel ==
    /\ fn = "autonomous_generation" /\ pc = "waiting" /\ cancel_at = 0
    /\ cancel_at' = idx
    /\ UNCHANGED <<varsClean, varsAsm, varsExpand, varsStore, varsTpl, varsMore>>

Next ==
    \/ Plan
    \/ ScaffoldTopicChapter
    \/ ScaffoldGenericChapter
    \/ GenerateWithoutRequest
    \/ GenerateMock
    \/ GenerateCustom
    \/ GenerateCustomRaises
    \/ GenerateRequest
    \/ GenerateResponse
    \/ Cancel
    \/ Return

Spec == Init /\ [][Next]_vars

(***************************************************************************)
(* Expander.expand called directly, on any text (the editor's AI Expand)   *)
(***************************************************************************)
ExpandChars == {"a", HY, SP, AuthorMark}

InitExpand ==
    /\ ecfg \in CfgChoices
    /\ earg \in StringsOver(ExpandChars, MaxExpandLen)
    /\ eret = <<>> /\ eposted = FALSE /\ eresp = None /\ epc = "ready"
    /\ CleanUnused
    /\ AsmUnused
    /\ RestUnused

\* expand returns without a request
ExpandWithoutRequest ==
    /\ epc = "ready" /\ ~NeedsRequest(ecfg)
    /\ eret' = expand_without_request(ecfg, earg)
    /\ epc' = "returned"
    /\ UNCHANGED <<ecfg, earg, eposted, eresp, varsClean, varsAsm, varsRest>>

\* expand reaches requests.post
ExpandRequest ==
    /\ epc = "ready" /\ NeedsRequest(ecfg)
    /\ eposted' = TRUE
    /\ epc' = "waiting"
    /\ UNCHANGED <<ecfg, earg, eret, eresp, varsClean, varsAsm, varsRest>>

\* requests.post ends and expand returns
ExpandResponse ==
    /\ epc = "waiting"
    /\ \E r \in Responses :
        /\ eresp' = r
        /\ eret' = expand_with_response(ecfg, earg, r)
    /\ epc' = "returned"
    /\ UNCHANGED <<ecfg, earg, eposted, varsClean, varsAsm, varsRest>>

NextExpand == ExpandWithoutRequest \/ ExpandRequest \/ ExpandResponse

SpecExpand == InitExpand /\ [][NextExpand]_vars

(***************************************************************************)
(* Properties of the two generators (checked under Spec)                   *)
(***************************************************************************)
\* the index of the first occurrence of needle in s, 0 when there is none
FirstIndex(s, needle) ==
    LET at == {k \in 1..(Len(s) - Len(needle) + 1) : SubSeq(s, k, k + Len(needle) - 1) = needle}
    IN  IF at = {} THEN 0 ELSE CHOOSE k \in at : \A m \in at : k <= m

\* the needles occur in s, each first occurrence after the one before
InThisOrder(s, needles) ==
    /\ \A k \in 1..Len(needles) : FirstIndex(s, needles[k]) > 0
    /\ \A a, b \in 1..Len(needles) :
          a < b => FirstIndex(s, needles[a]) < FirstIndex(s, needles[b])

\* the headings scaffold_from_meta writes for the plan, as they stand in a
\* normalized document
ScaffoldHeadings == [k \in 1..Len(chapters) |-> clean_text(HeadingText(k, chapters[k]))]

\* C1: chapters are generated in table-of-contents order: expander.expand is
\* called for chapter 1, 2, ... in this order, the pieces of chapter i are
\* appended before those of chapter j for i < j, and in the returned manuscript
\* the heading of chapter i comes before that of chapter j.
C1_ChaptersInOrder ==
    /\ \A k \in 1..Len(calls) : calls[k] = k
    /\ \A a, b \in 1..Len(owner) : a < b => owner[a] <= owner[b]
    /\ (pc = "done" /\ chapters # <<>>) => \A k \in 1..Len(chapters) : k \in Range(owner)
    /\ (pc = "done" /\ fn = "scaffold_from_meta") => InThisOrder(ret, ScaffoldHeadings)
    /\ (pc = "done" /\ expander = "MockExpander" /\ toc = TocABC) =>
          InThisOrder(ret, << <<"##", SP, "A">>, <<"##", SP, "B">>, <<"##", SP, "C">> >>)

\* three chapters generated through Expander, one after the other
C1_Witness ==
    /\ pc = "done" /\ fn = "autonomous_generation" /\ expander = "Expander"
    /\ toc = TocABC /\ calls = <<1, 2, 3>> /\ posts = <<1, 2, 3>>
    /\ owner[Len(owner)] = 3

\* C2 as stated: once the provider has failed for chapter k, the failure has
\* reached the caller, no text stands for chapter k in the document, chapter k
\* was requested once and no later chapter is requested.
C2_FailureHalts ==
    \A k \in fails :
        /\ pc = "raised"
        /\ k \notin Range(owner)
        /\ Cardinality({n \in 1..Len(calls) : calls[n] = k}) = 1
        /\ \A n \in 1..Len(calls) : calls[n] <= k

\* the toc of the run parses to no chapter
EmptyPlan == parse_toc(toc) = <<>>

Planned == pc \notin {"unused", "idle"}

\* the document holds exactly the four default chapters, in order
FourDefaultChapters ==
    /\ Range(owner) = 0..4
    /\ Cardinality({k \in 1..Len(ret) : ret[k] = "##"}) = 4
    /\ InThisOrder(ret, [k \in 1..4 |-> HeadingText(k, DefaultChapters[k])])

C5_ResultNormalized == pc = "done" => clean_text(ret) = ret

\* a caller's expander returned text that clean_text rewrites
C5_Witness ==
    /\ pc = "done" /\ expander = "Custom"
    /\ \E k \in 1..Len(out) : owner[k] > 0 /\ clean_text(out[k]) # strip(out[k])
    /\ ret # join(<<NL>>, out)

\* the credential the selected remote provider needs is missing
MissingCredential(c) ==
    \/ Mode(c) = "openai" /\ ~c.openai_api_key
    \/ Mode(c) = "gemini" /\ ~c.gemini_api_key

\* C7 as stated: with the credential missing, the first call for a chapter
\* fails: no request is issued, the error reaches the caller, no text is added
\* to the document and the call is not repeated.
C7_MissingCredentialFailsFast ==
    (fn = "autonomous_generation" /\ expander = "Expander" /\ MissingCredential(cfg)
        /\ calls # <<>>) =>
        /\ posts = <<>>
        /\ pc = "raised"
        /\ Range(owner) \subseteq {0}
        /\ Len(calls) = 1

(***************************************************************************)
(* Properties of Expander.expand (checked under SpecExpand)                *)
(***************************************************************************)
\* C6 as stated: whatever the mode and the return path, the text expand
\* returns has passed through the normalizer: clean_text leaves it unchanged.
C6_EveryReturnNormalized == epc = "returned" => clean_text(eret) = eret

(***************************************************************************)
(* Properties of the chapter plan (checked under Spec)                     *)
(***************************************************************************)
\* the symbols that end an entry of table of contents t
TocSeparators(t) == IF NL \in Range(t) THEN LineBreaks ELSE {CO}

\* the positions of t where an entry with some content starts: the first symbol
\* after a separator (or the start) that is not white space
EntryStarts(t) ==
    {p \in 1..Len(t) :
        /\ t[p] \notin Whitespace \cup TocSeparators(t)
        /\ \A q \in 1..(p - 1) :
              (\A r \in q..(p - 1) : t[r] \notin TocSeparators(t)) => t[q] \in Whitespace}

\* the k-th of them, in input order
EntryStart(t, k) ==
    CHOOSE p \in EntryStarts(t) : Cardinality({q \in EntryStarts(t) : q < p}) = k - 1

\* the last position of the entry that starts at p
EntryEnd(t, p) ==
    CHOOSE q \in p..Len(t) :
        /\ \A r \in p..q : t[r] \notin TocSeparators(t)
        /\ q = Len(t) \/ t[q + 1] \in TocSeparators(t)

\* a table of contents of four lines, two of them holding commas, one blank
TocLinesWithCommas == <<"A", CO, "B", NL, "C", CO, SP, NL, SP, NL, "D">>

\* C11: a table of contents holding a newline is split on line boundaries only,
\* any other on commas; the plan holds the entries with some content in input
\* order, each passed through clean_text (commas inside a line stay in the
\* chapter title).
C11_TocParsing ==
    (Planned /\ EntryStarts(toc) # {}) =>
        /\ Len(chapters) = Cardinality(EntryStarts(toc))
        /\ \A k \in 1..Len(chapters) :
              chapters[k] = clean_text(SubSeq(toc, EntryStart(toc, k),
                                              EntryEnd(toc, EntryStart(toc, k))))
        /\ \A k \in 1..Len(chapters) : NL \notin Range(chapters[k])

\* lines holding commas went through autonomous_generation
C11_Witness ==
    /\ pc = "done" /\ fn = "autonomous_generation" /\ toc = TocLinesWithCommas
    /\ chapters = << <<"A", CO, "B">>, <<"C", CO>>, <<"D">> >>

\* the text expander.expand returned for the piece out[n] of a chapter
GeneratedText(n) == Drop(out[n], 2)

\* the symbols of s that start a level-2 heading
Level2Headings(s) == {k \in 1..Len(s) : s[k] = "##"}

\* C12: no provider output is dropped: once autonomous_generation has returned,
\* every chapter of the plan has its piece, the normalized text the expander
\* returned for it stands in the manuscript, and with an expander that opens
\* each chapter with a level-2 heading the manuscript holds one such heading per
\* chapter.
C12_NoOutputDropped ==
    (pc = "done" /\ fn = "autonomous_generation" /\ chapters # <<>>) =>
        /\ \A k \in 1..Len(chapters) :
              \E n \in 1..Len(out) :
                  owner[n] = k /\ Contains(ret, clean_text(GeneratedText(n)))
        /\ expander = "MockExpander" => Cardinality(Level2Headings(ret)) = Len(chapters)

\* three chapters of the mock expander, and three of an expander whose text
\* clean_text rewrites
C12_Witness ==
    /\ pc = "done" /\ fn = "autonomous_generation" /\ Len(chapters) = 3
    /\ \/ expander = "MockExpander" /\ Cardinality(Level2Headings(ret)) = 3
       \/ /\ expander = "Custom"
          /\ \A n \in 1..Len(out) :
                owner[n] > 0 => clean_text(GeneratedText(n)) # GeneratedText(n)

\* the pieces chapter k appended, in order
PiecesOf(k) ==
    LET at == {n \in 1..Len(out) : owner[n] = k}
        nth(m) == CHOOSE n \in at : Cardinality({q \in at : q < n}) = m - 1
    IN  [m \in 1..Cardinality(at) |-> out[nth(m)]]

\* piece x is prefix followed by one text of table
FromTable(x, prefix, table) ==
    \E j \in 1..Len(table) : x = prefix \o <<table[j]>>

\* the occurrences in s of the texts of table
Occurrences(s, table) == {k \in 1..Len(s) : s[k] \in Range(table)}

\* C13: under a known topic every chapter section holds, after its heading,
\* one introduction, min(3, number of core concepts) pairwise distinct core
\* concepts, one example, min(2, number of exercises) pairwise distinct
\* exercises and one takeaway, each from the topic's table; with at most three
\* core concepts the returned document holds every one of them once per chapter.
C13_SectionShape ==
    (fn = "scaffold_from_meta" /\ topic = KnownTopic) =>
        LET td == TRAINING_DATA
            c  == Min(3, Len(td.core_concepts))
            e  == Min(2, Len(td.exercises))
        IN  /\ \A k \in Range(owner) \ {0} :
                  LET S == PiecesOf(k)
                  IN  /\ Len(S) = 7 + c + e
                      /\ S[1] = Heading(k, chapters[k])
                      /\ FromTable(S[2], <<>>, td.introductions)
                      /\ S[3] = <<NL>>
                      /\ \A m \in 1..c : FromTable(S[3 + m], <<>>, td.core_concepts)
                      /\ \A a, b \in 1..c : a # b => S[3 + a] # S[3 + b]
                      /\ FromTable(S[4 + c], <<NL, NL, "**Example:**", SP>>, td.examples)
                      /\ S[5 + c] = <<NL, NL, "### Exercises", NL>>
                      /\ \A m \in 1..e : FromTable(S[5 + c + m], <<"1.", SP>>, td.exercises)
                      /\ \A a, b \in 1..e : a # b => S[5 + c + a] # S[5 + c + b]
                      /\ S[6 + c + e] = <<NL, NL, "### Key Takeaways", NL>>
                      /\ FromTable(S[7 + c + e], <<>>, td.takeaways)
            /\ pc = "done" =>
                  /\ Cardinality(Occurrences(ret, td.introductions)) = Len(chapters)
                  /\ Cardinality(Occurrences(ret, td.examples)) = Len(chapters)
                  /\ Cardinality(Occurrences(ret, td.takeaways)) = Len(chapters)
                  /\ Cardinality(Occurrences(ret, td.exercises)) = e * Len(chapters)
                  /\ \A j \in 1..Len(td.core_concepts) :
                        Len(td.core_concepts) <= 3 =>
                            Cardinality(Occurrences(ret, <<td.core_concepts[j]>>)) = Len(chapters)

\* two chapters under the known topic, one random call off its first alternative
C13_Witness ==
    /\ pc = "done" /\ fn = "scaffold_from_meta" /\ topic = KnownTopic
    /\ Len(chapters) = 2 /\ rand_left < MaxRandomDeviations
    /\ Cardinality(Occurrences(ret, <<"core_concepts[0]">>)) = 2

(***************************************************************************)
(* The History/Cache Store: record, list, get                              *)
(***************************************************************************)
\* the symbols of a prompt that list() shows
ExcerptLen == 3

\* the prompt excerpt of a listing
Excerpt(p) == SubSeq(p, 1, Min(Len(p), ExcerptLen))

\* the id record assigns: above every id assigned so far
NextId(st) == IF st = <<>> THEN 1 ELSE st[Len(st)].id + 1

\* the store after record(prompt, output, provider, model) at time now
record(st, p, o, prov, m, now) ==
    Append(st, [id |-> NextId(st), timestamp |-> now, prompt |-> p, output |-> o,
                provider_name |-> prov, model_name |-> m])

ListRow(e) ==
    [id |-> e.id, timestamp |-> e.timestamp, prompt_excerpt |-> Excerpt(e.prompt),
     provider |-> e.provider_name]

\* (mutant) the listing in the order of recording
list_entries_oldest_first(st) == [k \in 1..Len(st) |-> ListRow(st[k])]

\* list(): one row per entry, most recent first
list_entries(st) == [k \in 1..Len(st) |-> ListRow(st[Len(st) + 1 - k])]

NotFound == [found |-> FALSE]

\* get(id): (prompt, output) of the entry with this id, or NotFound
get_entry(st, id) ==
    IF \E k \in 1..Len(st) : st[k].id = id
    THEN LET e == st[CHOOSE k \in 1..Len(st) : st[k].id = id]
         IN  [found |-> TRUE, prompt |-> e.prompt, output |-> e.output]
    ELSE NotFound

HistoryPrompts == { <<"p">>, <<"q">>, <<"p", "q", "r", "s">> }
HistoryOutputs == { <<"o">>, <<>> }
HistoryProviders == { "X", "Y" }

InitHistory ==
    /\ hstore = <<>> /\ hclock = 0 /\ hlog = <<>> /\ hres = None /\ hpc = "open"
    /\ CleanUnused /\ AsmUnused /\ ExpandUnused /\ SignalUnused /\ TplUnused /\ MoreUnused

\* id = record(p, o, prov, "m"); the clock may have advanced since the last call
HistoryRecord ==
    /\ hpc \in {"open", "reopened"} /\ Len(hstore) < MaxRecords
    /\ \E p \in HistoryPrompts, o \in HistoryOutputs, prov \in HistoryProviders,
          tick \in 0..1 :
        /\ hclock' = hclock + tick
        /\ hstore' = record(hstore, p, o, prov, "m", hclock')
        /\ hlog' = Append(hlog, [prompt |-> p, output |-> o, provider |-> prov,
                                 model |-> "m", id |-> NextId(hstore)])
    /\ UNCHANGED <<hres, hpc, varsClean, varsAsm, varsExpand, varsSignal, varsTpl, varsMore>>

\* rows = list()
HistoryList ==
    /\ hpc \in {"open", "reopened"}
    /\ hres' = [op |-> "list", rows |-> list_entries(hstore)]
    /\ UNCHANGED <<hstore, hclock, hlog, hpc, varsClean, varsAsm, varsExpand, varsSignal, varsTpl, varsMore>>

\* r = get(id), for an id that was returned or not
HistoryGet ==
    /\ hpc \in {"open", "reopened"}
    /\ \E id \in 0..(Len(hstore) + 1) :
        hres' = [op |-> "get", id |-> id, entry |-> get_entry(hstore, id)]
    /\ UNCHANGED <<hstore, hclock, hlog, hpc, varsClean, varsAsm, varsExpand, varsSignal, varsTpl, varsMore>>

\* the process restarts and reopens the same backing file: the entries persist
HistoryReopen ==
    /\ hpc = "open"
    /\ hres' = None
    /\ hpc' = "reopened"
    /\ UNCHANGED <<hstore, hclock, hlog, varsClean, varsAsm, varsExpand, varsSignal, varsTpl, varsMore>>

NextHistory == HistoryRecord \/ HistoryList \/ HistoryGet \/ HistoryReopen

SpecHistory == InitHistory /\ [][NextHistory]_vars

\* C15: history round trip: after one record on the empty store, list() holds
\* exactly one row, with the excerpt of the recorded prompt ("p" for "p") and
\* the recorded provider; get of a returned id yields exactly the prompt and the
\* output recorded under it, get of any other id NotFound; the ids returned are
\* strictly increasing and list() is ordered most recent first.
C15_HistoryRoundTrip ==
    LET rows == list_entries(hstore)
    IN  /\ Len(rows) = Len(hlog)
        /\ Len(hlog) = 1 =>
              /\ rows[1].id = hlog[1].id
              /\ rows[1].prompt_excerpt = Excerpt(hlog[1].prompt)
              /\ hlog[1].prompt = <<"p">> => rows[1].prompt_excerpt = <<"p">>
              /\ rows[1].provider = hlog[1].provider
        /\ \A n \in 1..Len(hlog) :
              get_entry(hstore, hlog[n].id) =
                  [found |-> TRUE, prompt |-> hlog[n].prompt, output |-> hlog[n].output]
        /\ \A a, b \in 1..Len(hlog) : a < b => hlog[a].id < hlog[b].id
        /\ \A a, b \in 1..Len(rows) :
              a < b => rows[a].id > rows[b].id /\ rows[a].timestamp >= rows[b].timestamp
        /\ \A id \in 0..(Len(hstore) + 1) :
              (\A n \in 1..Len(hlog) : hlog[n].id # id) => get_entry(hstore, id) = NotFound
        /\ (hres # None /\ hres.op = "list" /\ Len(hres.rows) = Len(hlog)) => hres.rows = rows
        /\ (hres # None /\ hres.op = "get" /\ hres.entry.found) =>
              \E n \in 1..Len(hlog) :
                  /\ hlog[n].id = hres.id
                  /\ hres.entry = [found |-> TRUE, prompt |-> hlog[n].prompt,
                                   output |-> hlog[n].output]

\* record("p", "o", "X", "m") on the empty store, then list()
C15_Witness ==
    /\ hpc = "open" /\ Len(hlog) = 1 /\ hlog[1].prompt = <<"p">> /\ hlog[1].output = <<"o">>
    /\ hlog[1].provider = "X"
    /\ hres # None /\ hres.op = "list" /\ Len(hres.rows) = 1
    /\ hres.rows[1].prompt_excerpt = <<"p">> /\ hres.rows[1].provider = "X"
    /\ get_entry(hstore, hres.rows[1].id) =
          [found |-> TRUE, prompt |-> <<"p">>, output |-> <<"o">>]

(***************************************************************************)
(* Cancellation and history of an assembly run (checked under Spec)        *)
(***************************************************************************)
\* the prompt autonomous_generation builds for chapter k of the plan
ChapterPrompt(k) == Prompt(title, join(<<NL>>, TocLines(chapters)), chapters[k])

\* the chapters whose generated text stands in the document
CompletedChapters == Range(owner) \ {0}

\* the chapters a remote provider generated with success
RemoteSuccesses == {k \in Range(posts) : k \in CompletedChapters /\ k \notin fails}

\* C14 as stated: once a cancellation is signalled while chapter k is in
\* flight, the run waits for the call in flight at most and ends aborted with
\* exactly chapters 1..k-1 in its result; chapter k gets no text and no
\* HistoryEntry, and no call is made for a later chapter.
C14_CancellationAborts ==
    cancel_at > 0 =>
        /\ pc \in {"waiting", "aborted"}
        /\ pc = "aborted" => CompletedChapters = 1..(cancel_at - 1)
        /\ cancel_at \notin CompletedChapters
        /\ \A e \in 1..Len(hstore) : hstore[e].prompt # ChapterPrompt(cancel_at)
        /\ \A n \in 1..Len(calls) : calls[n] <= cancel_at

\* C20 as stated: when the request for a chapter is issued, the text of every
\* chapter before it is appended and its HistoryEntry recorded; the store holds
\* exactly one HistoryEntry per chapter a remote provider generated with success.
C20_CommitBeforeNextRequest ==
    /\ \A n \in 1..Len(posts) : \A k \in 1..(posts[n] - 1) :
          /\ k \in CompletedChapters
          /\ (k \in RemoteSuccesses) =>
                \E e \in 1..Len(hstore) : hstore[e].prompt = ChapterPrompt(k)
    /\ Len(hstore) = Cardinality(RemoteSuccesses)

(***************************************************************************)
(* The Template Engine: get, apply                                         *)
(***************************************************************************)
LB == "{"
RB == "}"

\* the built-in catalog: name -> body
TEMPLATES ==
    [n \in {"chapter draft", "book outline", "ad copy"} |->
        CASE n = "chapter draft" -> <<"Write about ", LB, "topic", RB, " for ", LB, "audience", RB, ".">>
          [] n = "book outline"  -> <<"Outline a book on ", LB, "topic", RB, ".">>
          [] n = "ad copy"       -> <<"Sell ", LB, "product", RB, " to ", LB, "audience", RB, ".">>]

\* get(name): the body, or the empty string for an unknown name
template_get(name) == IF name \in DOMAIN TEMPLATES THEN TEMPLATES[name] ELSE <<>>

Digits == <<"0", "1", "2", "3", "4", "5", "6", "7", "8", "9">>

\* str(value) for a string or a number below 100
Stringify(v) ==
    IF "str" \in DOMAIN v THEN v.str
    ELSE IF v.int < 10 THEN <<Digits[v.int + 1]>>
         ELSE <<Digits[(v.int \div 10) + 1], Digits[(v.int % 10) + 1]>>

\* the positions of body where {name} starts, for a name of names
PlaceholderStarts(body, names) ==
    {k \in 1..(Len(body) - 2) : body[k] = LB /\ body[k + 1] \in names /\ body[k + 2] = RB}

\* (mutant) placeholders without a variable are removed
template_apply_strict(body, variables) ==
    LET at == PlaceholderStarts(body, {body[k] : k \in 1..Len(body)})
        piece(k) == IF k \in at
                    THEN IF body[k + 1] \in DOMAIN variables
                         THEN Stringify(variables[body[k + 1]]) ELSE <<>>
                    ELSE IF (k - 1) \in at \/ (k - 2) \in at THEN <<>> ELSE <<body[k]>>
    IN  join(<<>>, [k \in 1..Len(body) |-> piece(k)])

\* apply(body, variables): each {name} with name in variables becomes str(value)
template_apply(body, variables) ==
    LET at == PlaceholderStarts(body, DOMAIN variables)
        piece(k) == IF k \in at THEN Stringify(variables[body[k + 1]])
                    ELSE IF (k - 1) \in at \/ (k - 2) \in at THEN <<>> ELSE <<body[k]>>
    IN  join(<<>>, [k \in 1..Len(body) |-> piece(k)])

TplChars == {LB, RB, "x", "y", "a"}

\* the values of a variables mapping: strings (one of them empty) and numbers
TplValues == {[str |-> <<"A">>], [str |-> <<>>], [int |-> 7], [int |-> 12]}

\* the mappings over the names x and y
TplMappings ==
    UNION {[names -> TplValues] : names \in SUBSET {"x", "y"}}

\* the examples of the documentation
TplBodyXY == <<LB, "x", RB, LB, "y", RB>>
TplBodyBees == TEMPLATES["chapter draft"]
TplBees == [n \in {"topic", "audience"} |->
                IF n = "topic" THEN [str |-> <<"bees">>] ELSE [str |-> <<"kids">>]]

InitTemplate ==
    /\ \/ /\ tbody \in StringsOver(TplChars, MaxBodyLen) \cup {TplBodyXY}
          /\ tvars \in TplMappings
          /\ tname = "unknown"
       \/ /\ tbody = TplBodyBees /\ tvars \in {TplBees, EmptyDict}
          /\ tname \in DOMAIN TEMPLATES \cup {"unknown", ""}
    /\ tres = <<>> /\ tpc = "ready"
    /\ CleanUnused /\ AsmUnused /\ ExpandUnused /\ SignalUnused /\ StoreUnused /\ MoreUnused

\* r = apply(body, variables)
TemplateApply ==
    /\ tpc = "ready"
    /\ tres' = template_apply(tbody, tvars)
    /\ tpc' = "applied"
    /\ UNCHANGED <<tbody, tvars, tname, varsClean, varsAsm, varsExpand, varsSignal, varsStore, varsMore>>

\* r = get(name)
TemplateGet ==
    /\ tpc = "ready"
    /\ tres' = template_get(tname)
    /\ tpc' = "got"
    /\ UNCHANGED <<tbody, tvars, tname, varsClean, varsAsm, varsExpand, varsSignal, varsStore, varsMore>>

NextTemplate == TemplateApply \/ TemplateGet

SpecTemplate == InitTemplate /\ [][NextTemplate]_vars

\* how often symbol c stands in s
CountOf(s, c) == Cardinality({k \in 1..Len(s) : s[k] = c})

\* the names of the placeholders of body
PlaceholderNames(body) ==
    {body[k + 1] : k \in PlaceholderStarts(body, {body[k] : k \in 1..Len(body)})}

\* C16: apply replaces every {name} whose name is in variables by the
\* stringified value and leaves every other placeholder where it is, without
\* error: apply("{x}{y}", {x: "A"}) is "A{y}"; a body without a placeholder of
\* variables comes back unchanged; get returns the empty string for an unknown
\* name and the catalog's body for a known one.
C16_TemplateSubstitution ==
    /\ tpc = "applied" =>
          LET known == PlaceholderStarts(tbody, DOMAIN tvars)
          IN  /\ known = {} => tres = tbody
              /\ CountOf(tres, LB) = CountOf(tbody, LB) - Cardinality(known)
              /\ CountOf(tres, RB) = CountOf(tbody, RB) - Cardinality(known)
              /\ CountOf(tres, "a") = CountOf(tbody, "a")
              /\ \A n \in DOMAIN tvars :
                    Stringify(tvars[n]) # <<>> => ~Contains(tres, <<LB, n, RB>>)
              /\ \A n \in PlaceholderNames(tbody) \ DOMAIN tvars :
                    Cardinality(PlaceholderStarts(tres, {n}))
                        >= Cardinality(PlaceholderStarts(tbody, {n}))
              /\ \A k \in known : Contains(tres, Stringify(tvars[tbody[k + 1]]))
              /\ (tbody = TplBodyXY /\ DOMAIN tvars = {"x"}) =>
                    tres = Stringify(tvars["x"]) \o <<LB, "y", RB>>
              /\ (tbody = TplBodyBees /\ tvars = TplBees) =>
                    tres = <<"Write about ", "bees", " for ", "kids", ".">>
    /\ tpc = "got" =>
          /\ tname \notin DOMAIN TEMPLATES => tres = <<>>
          /\ tname \in DOMAIN TEMPLATES => tres = TEMPLATES[tname] /\ tres # <<>>

\* apply("{x}{y}", {x: "A"}) returned "A{y}"
C16_Witness ==
    /\ tpc = "applied" /\ tbody = TplBodyXY /\ DOMAIN tvars = {"x"}
    /\ tvars["x"] = [str |-> <<"A">>]
    /\ tres = <<"A", LB, "y", RB>>

(***************************************************************************)
(* Calls and requests of an assembly run (checked under Spec)              *)
(***************************************************************************)
\* a table of contents with the same title three times
TocAAA == <<"A", CO, "A", CO, "A">>

\* C17: a completed run of autonomous_generation has called expander.expand
\* exactly once per entry of the table of contents, a repeated title included:
\* as many calls as entries, call n for chapter n, and at most one request per
\* call; scaffold_from_meta calls no expander.
C17_OneCallPerChapter ==
    /\ (fn = "autonomous_generation" /\ pc = "done") =>
          /\ Len(calls) = Cardinality(EntryStarts(toc))
          /\ Len(calls) = Len(chapters)
    /\ \A a, b \in 1..Len(calls) : a # b => calls[a] # calls[b]
    /\ \A a, b \in 1..Len(posts) : a # b => posts[a] # posts[b]
    /\ Range(posts) \subseteq Range(calls)
    /\ fn = "scaffold_from_meta" => calls = <<>> /\ posts = <<>>

\* three chapters of the same title: three calls
C17_Witness ==
    /\ pc = "done" /\ fn = "autonomous_generation" /\ toc = TocAAA
    /\ chapters = << <<"A">>, <<"A">>, <<"A">> >> /\ calls = <<1, 2, 3>>

\* the requests whose response has been appended
AnsweredPosts == {n \in 1..Len(posts) : posts[n] \in CompletedChapters}

\* C19: chapter generation is sequential: at most one request is in flight, it
\* is the one of the current chapter, and a call for a chapter is made only
\* after the call of every chapter before it has returned its text.
C19_OneRequestInFlight ==
    LET inflight == Len(posts) - Cardinality(AnsweredPosts)
    IN  /\ inflight \in {0, 1}
        /\ inflight = 1 <=> pc = "waiting"
        /\ pc = "waiting" => posts[Len(posts)] = idx /\ idx \notin CompletedChapters
        /\ \A n \in 1..Len(calls) : \A k \in 1..(calls[n] - 1) : k \in CompletedChapters

\* the request of chapter 2 in flight, chapter 1 answered
C19_Witness ==
    /\ pc = "waiting" /\ posts = <<1, 2>> /\ CompletedChapters = {1}

(***************************************************************************)
(* Failures of a remote provider (checked under SpecExpand)                *)
(***************************************************************************)
\* C18 as stated: in a remote mode, a response with HTTP status >= 400 or a
\* body that does not parse ends the call in an error that reaches the caller:
\* expand does not return text.
C18_RemoteFailureRaises ==
    (eresp # None /\ eresp.kind \in {"http_error", "bad_json"}) =>
        /\ Mode(ecfg) \in {"openai", "gemini", "local"}
        /\ epc = "raised"

(***************************************************************************)
(* The states of an assembly run (checked under Spec)                      *)
(***************************************************************************)
\* C21 as stated: the run goes Idle, Planning, PerChapter(1..N), Normalizing,
\* Done: it is done only when every chapter of the plan has succeeded and the
\* result is normalized; it is at chapter i only with chapters 1..i-1 completed
\* and none failed; it aborts from a chapter only, with that chapter unfinished.
C21_StateMachine ==
    /\ pc = "done" =>
          /\ fails = {}
          /\ CompletedChapters = 1..Len(chapters)
          /\ clean_text(ret) = ret
    /\ pc \in {"loop", "waiting"} =>
          /\ CompletedChapters = 1..(idx - 1)
          /\ fails = {}
    /\ pc = "raised" =>
          /\ idx \in 1..Len(chapters)
          /\ CompletedChapters = 1..(idx - 1)

\* the entries table of contents t is cut into, blank ones included
TocEntries(t) == IF NL \in Range(t) THEN splitlines(t) ELSE split(t, CO)

\* the entries of t that `if x.strip()` leaves out of the plan
BlankEntries(t) == SelectSeq(TocEntries(t), LAMBDA x : ~NotBlank(x))

\* C23 as stated: an entry that is empty after trimming is skipped and not
\* counted, every entry of the plan is non-empty, the listing numbers the plan
\* 1..N without a gap, the run goes on, and one warning condition is recorded
\* for each skipped entry.
C23_SkippedEntriesWarned ==
    (Planned /\ EntryStarts(toc) # {}) =>
        /\ Len(chapters) = Len(TocEntries(toc)) - Len(BlankEntries(toc))
        /\ \A k \in 1..Len(chapters) : chapters[k] # <<>>
        /\ pc = "done" => InThisOrder(ret, TocLines(chapters))
        /\ Len(warnings) = Len(BlankEntries(toc))

(***************************************************************************)
(* The preamble (checked under Spec)                                       *)
(***************************************************************************)
\* the pieces of out written before the loop
PreamblePieces == {k \in 1..Len(out) : owner[k] = 0}

\* the piece that holds "### Table of Contents"
TocHeaderPiece == CHOOSE k \in PreamblePieces : out[k] = <<NL, "### Table of Contents", NL>>

\* the pieces of out from a up to b
Pieces(a, b) == SubSeq(out, a, b)

\* C24: a manuscript opens with the title line ("Untitled" for an empty title),
\* then the subtitle line exactly when the normalized subtitle is non-empty,
\* then the description block exactly when the normalized description is
\* non-empty, then the table-of-contents listing with exactly one entry
\* "i. title" per chapter of the plan, numbered 1..N in plan order, all of it
\* before any chapter body.
C24_PreambleStructure ==
    /\ [][(pc = "idle" /\ pc' = "loop") =>
            out'[1] = <<"#", SP>> \o (IF title = <<>> THEN <<"Untitled">>
                                                      ELSE clean_text(title))]_vars
    /\ [](  (Planned /\ chapters # <<>>) =>
              LET h    == TocHeaderPiece
                  last == Cardinality(PreamblePieces)
              IN  /\ PreamblePieces = 1..last
                  /\ out[1] = <<"#", SP>> \o title
                  /\ h = 2 + (IF subtitle # <<>> THEN 1 ELSE 0)
                           + (IF description # <<>> THEN 1 ELSE 0)
                  /\ subtitle # <<>> => out[2] = <<NL, "**">> \o subtitle \o <<"**", NL>>
                  /\ description # <<>> => out[h - 1] = <<NL, ">", SP>> \o description \o <<NL>>
                  /\ \A k \in 2..(h - 1) : StartsWith(out[k], <<NL, "**">>) <=> (k = 2 /\ subtitle # <<>>)
                  /\ join(<<NL>>, Pieces(h + 1, last)) = join(<<NL>>, TocLines(chapters))
                  /\ pc = "done" =>
                        /\ StartsWith(ret, <<"#", SP>> \o title)
                        /\ InThisOrder(ret, << <<"### Table of Contents">> >> \o TocLines(chapters))
                        /\ \A g \in Level2Headings(ret) :
                              g > FirstIndex(ret, TocLine(Len(chapters), chapters[Len(chapters)])) )

\* a manuscript with all three optional parts and two chapters was returned
C24_Witness ==
    /\ pc = "done" /\ fn = "scaffold_from_meta" /\ Len(chapters) = 2
    /\ title = <<"T">> /\ subtitle = <<"S">> /\ description = <<DQ, "D", DQ>>
    /\ TocHeaderPiece = 4 /\ Cardinality(PreamblePieces) = 6

(***************************************************************************)
(* The offline variant (checked under Spec)                                *)
(***************************************************************************)
\* a run whose text comes from scaffold_from_meta or from Expander in offline
\* mode, chosen or defaulted
OfflineRun ==
    \/ fn = "scaffold_from_meta"
    \/ fn = "autonomous_generation" /\ expander = "Expander"
          /\ cfg.mode \in {"offline", "absent"}

\* C25: the offline variant never touches the network: no request is issued,
\* and none is in flight, at any point of a run of scaffold_from_meta or of a
\* run whose Expander has mode "offline" or no mode at all.
C25_OfflineNoNetwork ==
    OfflineRun => posts = <<>> /\ pc # "waiting" /\ fails = {}

\* three chapters came out of an Expander without a mode, no request issued
C25_Witness ==
    /\ pc = "done" /\ fn = "autonomous_generation" /\ expander = "Expander"
    /\ cfg = EmptyCfg /\ calls = <<1, 2, 3>> /\ posts = <<>>

(***************************************************************************)
(* Expander.expand as a total function (checked under SpecExpand)          *)
(***************************************************************************)
KnownModes == {"offline", "openai", "gemini", "local", "llama.cpp"}

\* the call ended on an exception raised inside a provider call: the request
\* failed, its status was an error, its body did not parse, or llama-cpp-python
\* could not be imported
ProviderRaised ==
    \/ eresp # None /\ eresp.kind \in FailureKinds
    \/ Mode(ecfg) = "llama.cpp" /\ ecfg.llama_cpp_model_path

\* C26 as stated: expand never propagates an exception and always returns;
\* when a provider call raised, and when the mode is unknown, what it returns
\* is exactly the text it was given.
C26_FallbackReturnsInput ==
    /\ epc \in {"ready", "waiting", "returned"}
    /\ (epc = "returned" /\ (ProviderRaised \/ Mode(ecfg) \notin KnownModes)) =>
          eret = earg

(***************************************************************************)
(* A table of contents without chapters (checked under Spec)               *)
(***************************************************************************)
\* C27: when the table of contents holds no entry with content,
\* autonomous_generation calls the expander for no chapter, issues no request
\* and returns at once: neither the title line nor the table-of-contents header
\* nor any chapter text is emitted, the result is the one-line error.
C27_EmptyPlanGeneratesNothing ==
    (fn = "autonomous_generation" /\ Planned /\ EntryStarts(toc) = {}) =>
        /\ pc = "done"
        /\ calls = <<>> /\ posts = <<>>
        /\ out = <<>> /\ idx = 0
        /\ Len(ret) = 1
        /\ ~Contains(ret, <<"#", SP>> \o title)
        /\ "### Table of Contents" \notin Range(ret)

\* a table of contents of separators and blanks went through autonomous_generation
C27_Witness ==
    /\ pc = "done" /\ fn = "autonomous_generation" /\ toc = <<SP, CO, SP>>
    /\ title = <<"T">> /\ ret = ErrorEmptyToc

(***************************************************************************)
(* The padding loop of the single-file scaffold_from_meta                  *)
(* (src/EbookForgePro_final.py).  A paragraph is the number of its words:  *)
(* textwrap.fill only moves line breaks (and cuts a word longer than the   *)
(* line in two, which the word counts drawn stand for), and                *)
(* len(" ".join(paragraphs).split()) is the sum of the paragraphs' words.  *)
(***************************************************************************)
\* "presents a practical strategy with step-by-step actions and measurable
\* outcomes. Write clearly and prioritize momentum."
FirstParaFixedWords == 15

\* "Add examples, pitfalls, best practices, and a short scenario. End with ROI
\* metrics and a week-one action plan."
PaddingWords == 18

TargetFirst == 700
TargetLater == 900

\* the first para of a chapter: its title, the fixed sentences, seed_short[:300]
first_para(title_words, seed_words) == title_words + FirstParaFixedWords + seed_words

\* the para every iteration of the loop leaves behind
padding_para == PaddingWords

\* target_words = 900 if i > 1 else 700
TargetWords(k) == IF k > 1 THEN TargetLater ELSE TargetFirst

\* len(" ".join(chunk + [para]).split())
WordsWith(c, p) == c.words + p

\* (mutant) the loop without its chunk.append(para)
chunk_append_lost(c, p) == c

\* chunk.append(para)
chunk_append(c, p) == [n |-> c.n + 1, words |-> c.words + p]

\* the plan that stands in for an empty table of contents: "Introduction",
\* "Chapter 1", "Chapter 2", "Conclusion"
DefaultPlanWords == <<1, 2, 2, 1>>

\* the titles drawn: short ones, and one that alone fills the first target
PadTitleWords == (1..MaxTitleWords) \cup {TargetFirst}

InitPad ==
    /\ pad_titles \in UNION {[1..n -> PadTitleWords] : n \in 1..MaxPadChapters}
                       \cup {DefaultPlanWords}
    /\ pad_seed \in 0..MaxSeedWords
    /\ pad_i = 1 /\ para = 0 /\ chunk = EmptyChunk /\ target_words = 0
    /\ filler = <<>> /\ ppc = "for"
    /\ CleanUnused /\ AsmUnused /\ ExpandUnused
    /\ SignalUnused /\ StoreUnused /\ TplUnused /\ WarnUnused /\ LoadUnused

\* the chapter loop takes its next chapter, up to the test of the while loop
PadChapter ==
    /\ ppc = "for" /\ pad_i <= Len(pad_titles)
    /\ para' = first_para(pad_titles[pad_i], pad_seed)
    /\ chunk' = EmptyChunk
    /\ target_words' = TargetWords(pad_i)
    /\ ppc' = "while"
    /\ UNCHANGED <<pad_titles, pad_seed, pad_i, filler>>
    /\ UNCHANGED <<varsClean, varsAsm, varsExpand, varsSignal, varsStore, varsTpl, varsWarn, varsLoad>>

\* one iteration of the while loop
PadIterate ==
    /\ ppc = "while" /\ WordsWith(chunk, para) < target_words
    /\ chunk' = chunk_append(chunk, para)
    /\ para' = padding_para
    /\ UNCHANGED <<pad_titles, pad_seed, pad_i, target_words, filler, ppc>>
    /\ UNCHANGED <<varsClean, varsAsm, varsExpand, varsSignal, varsStore, varsTpl, varsWarn, varsLoad>>

\* the while loop is left: out.append("\n\n".join(chunk)) and the two fixed sections
PadEmit ==
    /\ ppc = "while" /\ ~(WordsWith(chunk, para) < target_words)
    /\ filler' = Append(filler, chunk.words)
    /\ pad_i' = pad_i + 1
    /\ ppc' = "for"
    /\ UNCHANGED <<pad_titles, pad_seed, para, chunk, target_words>>
    /\ UNCHANGED <<varsClean, varsAsm, varsExpand, varsSignal, varsStore, varsTpl, varsWarn, varsLoad>>

\* the chapter loop is over: return clean_text("\n".join(out))
PadReturn ==
    /\ ppc = "for" /\ pad_i > Len(pad_titles)
    /\ ppc' = "returned"
    /\ UNCHANGED <<pad_titles, pad_seed, pad_i, para, chunk, target_words, filler>>
    /\ UNCHANGED <<varsClean, varsAsm, varsExpand, varsSignal, varsStore, varsTpl, varsWarn, varsLoad>>

NextPad == PadChapter \/ PadIterate \/ PadEmit \/ PadReturn

SpecPad == InitPad /\ [][NextPad]_vars

\* the interpreter runs the function on: no step that can be taken waits forever
SpecPadLive == SpecPad /\ WF_vars(NextPad)

\* C22 as stated: for an unrecognized topic every chapter gets generic filler
\* of at least 700 words (chapter 1) or 900 words (chapters 2..N).
C22_FillerMeetsTarget ==
    \A k \in 1..Len(filler) : filler[k] >= TargetWords(k)

\* C28: the padding loop terminates: every iteration adds one paragraph and
\* strictly increases the accumulated word count under an unchanged target, a
\* chapter never takes more iterations than its target has words, and
\* scaffold_from_meta returns with every chapter of the plan emitted.
C28_PaddingTerminates ==
    /\ [][(ppc = "while" /\ ppc' = "while") =>
            /\ chunk'.n = chunk.n + 1
            /\ chunk'.words > chunk.words
            /\ target_words' = target_words]_vars
    /\ [](ppc = "while" => chunk.n <= target_words)
    /\ <>(ppc = "returned" /\ Len(filler) = Len(pad_titles))

\* a plan of two chapters returned, the second after fifty iterations
C28_Witness ==
    /\ ppc = "returned" /\ pad_titles = <<1, 1>> /\ pad_seed = 0
    /\ Len(filler) = 2 /\ chunk.n = 50

(***************************************************************************)
(* Lazy loading: MusicGenerator (src/src/ebookforgepro/music.py) and       *)
(* ImageGenerator (src/src/ebookforgepro/image.py).  A step is one         *)
(* statement that can raise; a load fails with an Exception, which is what *)
(* the handlers of _load_model catch.                                      *)
(***************************************************************************)
\* the object the k-th load attempt builds
Handle(k) == [handle |-> k]

\* (mutant) the handler of MusicGenerator._load_model resets the model alone
after_failed_load_keeps_processor(m, p) == [model |-> None, processor |-> p]

\* self.model = None; self.processor = None
after_failed_load(m, p) == [model |-> None, processor |-> None]

\* one generator object is built and called, the other is not in use
InitLoad ==
    /\ MusicFresh /\ ImageFresh
    /\ \/ mpc = "idle" /\ ipc = "unused"
       \/ mpc = "unused" /\ ipc = "idle"
    /\ CleanUnused /\ AsmUnused /\ ExpandUnused
    /\ SignalUnused /\ StoreUnused /\ TplUnused /\ WarnUnused /\ PadUnused

OthersUnchanged ==
    UNCHANGED <<varsClean, varsAsm, varsExpand, varsSignal, varsStore, varsTpl,
                varsWarn, varsPad>>

\* the caller calls generate(prompt) or _load_model()
MusicCall ==
    /\ mpc = "idle" /\ mcalls < MaxLoadCalls
    /\ mfn' \in {"generate", "_load_model"}
    /\ mcalls' = mcalls + 1
    /\ mpc' = "test"
    /\ UNCHANGED <<model, processor, music_device, mlast, mattempts, msucceeded>>
    /\ UNCHANGED varsImage /\ OthersUnchanged

\* _load_model has returned: back in generate, or back at the caller
MusicLoaded ==
    /\ mpc' = IF mfn = "generate" THEN "generate" ELSE "idle"
    /\ mlast' = IF mfn = "generate" THEN mlast ELSE "returned"

\* an exception leaves _load_model, and generate with it
MusicLoadRaises == mpc' = "idle" /\ mlast' = "load_failed"

\* `if self.model is not None and self.processor is not None: return`
MusicTest ==
    /\ mpc = "test"
    /\ IF model # None /\ processor # None
       THEN MusicLoaded /\ UNCHANGED mattempts
       ELSE mpc' = "ensure_torch" /\ mattempts' = mattempts + 1 /\ UNCHANGED mlast
    /\ UNCHANGED <<model, processor, music_device, mfn, mcalls, msucceeded>>
    /\ UNCHANGED varsImage /\ OthersUnchanged

\* ensure_pkg("torch", ...), ensure_pkg("transformers", ...) and self.device = ...:
\* ensure_pkg raises when the package can be neither imported nor installed
MusicEnsurePkg ==
    /\ mpc \in {"ensure_torch", "ensure_transformers"}
    /\ \E ok \in BOOLEAN :
        IF ~ok THEN MusicLoadRaises /\ UNCHANGED music_device
        ELSE IF mpc = "ensure_torch"
             THEN mpc' = "ensure_transformers" /\ UNCHANGED <<music_device, mlast>>
             ELSE /\ music_device' \in {"cuda:0", "cpu"}
                  /\ mpc' = "load_processor" /\ UNCHANGED mlast
    /\ UNCHANGED <<model, processor, mfn, mcalls, mattempts, msucceeded>>
    /\ UNCHANGED varsImage /\ OthersUnchanged

\* self.processor = transformers.AutoProcessor.from_pretrained(...)
MusicLoadProcessor ==
    /\ mpc = "load_processor"
    /\ \E ok \in BOOLEAN :
        IF ok THEN processor' = Handle(mattempts) /\ mpc' = "load_model"
              ELSE mpc' = "except" /\ UNCHANGED processor
    /\ UNCHANGED <<model, music_device, mfn, mlast, mcalls, mattempts, msucceeded>>
    /\ UNCHANGED varsImage /\ OthersUnchanged

\* self.model = transformers.MusicgenForConditionalGeneration.from_pretrained(...).to(...)
MusicLoadModel ==
    /\ mpc = "load_model"
    /\ \E ok \in BOOLEAN :
        IF ok THEN /\ model' = Handle(mattempts) /\ msucceeded' = mattempts
                   /\ MusicLoaded
              ELSE mpc' = "except" /\ UNCHANGED <<model, msucceeded, mlast>>
    /\ UNCHANGED <<processor, music_device, mfn, mcalls, mattempts>>
    /\ UNCHANGED varsImage /\ OthersUnchanged

\* except Exception: self.model = None; self.processor = None; raise
MusicExcept ==
    /\ mpc = "except"
    /\ model' = after_failed_load(model, processor).model
    /\ processor' = after_failed_load(model, processor).processor
    /\ MusicLoadRaises
    /\ UNCHANGED <<music_device, mfn, mcalls, mattempts, msucceeded>>
    /\ UNCHANGED varsImage /\ OthersUnchanged

\* the rest of generate: RuntimeError without a model, else the generation,
\* which returns or raises
MusicGenerate ==
    /\ mpc = "generate"
    /\ mpc' = "idle"
    /\ IF model = None \/ processor = None
       THEN mlast' = "not_loaded"
       ELSE mlast' \in {"returned", "generate_failed"}
    /\ UNCHANGED <<model, processor, music_device, mfn, mcalls, mattempts, msucceeded>>
    /\ UNCHANGED varsImage /\ OthersUnchanged

ImageCall ==
    /\ ipc = "idle" /\ icalls < MaxLoadCalls
    /\ ifn' \in {"generate", "_load_model"}
    /\ icalls' = icalls + 1
    /\ ipc' = "test"
    /\ UNCHANGED <<pipeline, image_device, ilast, iattempts, isucceeded>>
    /\ UNCHANGED varsMusic /\ OthersUnchanged

ImageLoaded ==
    /\ ipc' = IF ifn = "generate" THEN "generate" ELSE "idle"
    /\ ilast' = IF ifn = "generate" THEN ilast ELSE "returned"

ImageLoadRaises == ipc' = "idle" /\ ilast' = "load_failed"

\* `if self.pipeline is not None: return`
ImageTest ==
    /\ ipc = "test"
    /\ IF pipeline # None
       THEN ImageLoaded /\ UNCHANGED iattempts
       ELSE ipc' = "ensure_torch" /\ iattempts' = iattempts + 1 /\ UNCHANGED ilast
    /\ UNCHANGED <<pipeline, image_device, ifn, icalls, isucceeded>>
    /\ UNCHANGED varsMusic /\ OthersUnchanged

\* the three ensure_pkg calls and self.device = ...
ImageEnsurePkg ==
    /\ ipc \in {"ensure_torch", "ensure_accelerate", "ensure_diffusers"}
    /\ \E ok \in BOOLEAN :
        IF ~ok THEN ImageLoadRaises /\ UNCHANGED image_device
        ELSE CASE ipc = "ensure_torch" ->
                    ipc' = "ensure_accelerate" /\ UNCHANGED <<image_device, ilast>>
               [] ipc = "ensure_accelerate" ->
                    ipc' = "ensure_diffusers" /\ UNCHANGED <<image_device, ilast>>
               [] ipc = "ensure_diffusers" ->
                    /\ image_device' \in {"cuda", "cpu"}
                    /\ ipc' = "load_pipeline" /\ UNCHANGED ilast
    /\ UNCHANGED <<pipeline, ifn, icalls, iattempts, isucceeded>>
    /\ UNCHANGED varsMusic /\ OthersUnchanged

\* self.pipeline = diffusers.DiffusionPipeline.from_pretrained(...)
ImageLoadPipeline ==
    /\ ipc = "load_pipeline"
    /\ \E ok \in BOOLEAN :
        IF ok THEN pipeline' = Handle(iattempts) /\ ipc' = "to_device"
              ELSE ipc' = "except" /\ UNCHANGED pipeline
    /\ UNCHANGED <<image_device, ifn, ilast, icalls, iattempts, isucceeded>>
    /\ UNCHANGED varsMusic /\ OthersUnchanged

\* self.pipeline.to(self.device)
ImagePipelineTo ==
    /\ ipc = "to_device"
    /\ \E ok \in BOOLEAN :
        IF ok THEN isucceeded' = iattempts /\ ImageLoaded
              ELSE ipc' = "except" /\ UNCHANGED <<isucceeded, ilast>>
    /\ UNCHANGED <<pipeline, image_device, ifn, icalls, iattempts>>
    /\ UNCHANGED varsMusic /\ OthersUnchanged

\* except Exception: self.pipeline = None; raise
ImageExcept ==
    /\ ipc = "except"
    /\ pipeline' = None
    /\ ImageLoadRaises
    /\ UNCHANGED <<image_device, ifn, icalls, iattempts, isucceeded>>
    /\ UNCHANGED varsMusic /\ OthersUnchanged

ImageGenerate ==
    /\ ipc = "generate"
    /\ ipc' = "idle"
    /\ IF pipeline = None
       THEN ilast' = "not_loaded"
       ELSE ilast' \in {"returned", "generate_failed"}
    /\ UNCHANGED <<pipeline, image_device, ifn, icalls, iattempts, isucceeded>>
    /\ UNCHANGED varsMusic /\ OthersUnchanged

NextLoad ==
    \/ MusicCall \/ MusicTest \/ MusicEnsurePkg \/ MusicLoadProcessor
    \/ MusicLoadModel \/ MusicExcept \/ MusicGenerate
    \/ ImageCall \/ ImageTest \/ ImageEnsurePkg \/ ImageLoadPipeline
    \/ ImagePipelineTo \/ ImageExcept \/ ImageGenerate

SpecLoad == InitLoad /\ [][NextLoad]_vars

\* C29: lazy loading keeps a consistent state: whenever _load_model has
\* returned or raised, model and processor are both None or both set; a failed
\* load leaves both None and the next call starts the load again; once a load
\* has succeeded the objects stay and no later call loads again.  The same for
\* ImageGenerator.pipeline.
C29_LazyLoadConsistent ==
    /\ [](mpc \in {"idle", "generate"} => ((model = None) <=> (processor = None)))
    /\ []((mpc = "idle" /\ mlast = "load_failed") => (model = None /\ processor = None))
    /\ [](msucceeded > 0 =>
            (mattempts = msucceeded /\ model = Handle(msucceeded)
                                    /\ processor = Handle(msucceeded)))
    /\ [][(mpc = "test" /\ mlast = "load_failed") => mpc' = "ensure_torch"]_vars
    /\ []((ipc = "idle" /\ ilast = "load_failed") => pipeline = None)
    /\ [](isucceeded > 0 => (iattempts = isucceeded /\ pipeline = Handle(isucceeded)))
    /\ [][(ipc = "test" /\ ilast = "load_failed") => ipc' = "ensure_torch"]_vars

\* a load failed after the processor was set, the next call loaded both, and a
\* third call returned without loading
C29_Witness ==
    /\ mpc = "idle" /\ mcalls = 3 /\ mattempts = 2 /\ msucceeded = 2
    /\ mlast = "returned" /\ model = Handle(2) /\ processor = Handle(2)

(***************************************************************************)
(* clean_text called with options, then without (the frame of a call)      *)
(***************************************************************************)
InitFrame ==
    /\ CLEAN_OPTS = CLEAN_OPTS_default
    /\ cin \in StringsOver(CharsAll, MaxFrameLen) \cup {DashExample, MixedExample}
    /\ copts \in CleanOptChoices
    /\ carg = cin
    /\ cret = <<>>
    /\ cpc = "ready"
    /\ AsmUnused
    /\ ExpandUnused
    /\ RestUnused

\* r3 = clean_text(s): the same text once more, without options
CleanDefault ==
    /\ cpc = "returned"
    /\ cret' = clean_text(cin)
    /\ CLEAN_OPTS' = table_after_call(CLEAN_OPTS, None)
    /\ cpc' = "defaulted"
    /\ UNCHANGED <<cin, copts, carg, varsAsm, varsExpand, varsRest>>

NextFrame == CleanCall \/ CleanDefault

SpecFrame == InitFrame /\ [][NextFrame]_vars

\* C30: clean_text has no effect outside its return value: no call, with or
\* without options, changes CLEAN_OPTS or the caller's options mapping, and a
\* call without options made after a call with options returns what the
\* default table gives.
C30_NoEffectOutsideResult ==
    /\ [][CLEAN_OPTS' = CLEAN_OPTS /\ copts' = copts]_vars
    /\ [](CLEAN_OPTS = CLEAN_OPTS_default)
    /\ [](cpc = "defaulted" => cret = clean_text_with(cin, None, CLEAN_OPTS_default))

\* every flag was switched off in the first call, and the second call, without
\* options, rewrote the text all the same
C30_Witness ==
    /\ cpc = "defaulted" /\ copts = [k \in OptKeys |-> FALSE]
    /\ cin = MixedExample /\ cret = <<",", SP, "a", DQ>>

====
